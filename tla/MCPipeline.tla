----------------------------- MODULE MCPipeline -----------------------------
(* Requests: a plain, a forbidden and a composite capability and one that  *)
(* is not registered, for two origins.  Origin "persona" may not write,    *)
(* "guest" needs approval for "read"; one request has bad args.  Two calls *)
(* are two independent dispatches or a parent and its nested invocation;   *)
(* the theorems of PipelineProofs are about any number.                    *)
EXTENDS Pipeline

MCRequests ==
    {[cap |-> "read",  args |-> "good", origin |-> "persona"],
     [cap |-> "read",  args |-> "bad",  origin |-> "persona"],
     [cap |-> "write", args |-> "good", origin |-> "persona"],
     [cap |-> "skill", args |-> "good", origin |-> "persona"],
     [cap |-> "ghost", args |-> "good", origin |-> "persona"],
     [cap |-> "read",  args |-> "good", origin |-> "guest"],
     [cap |-> "skill", args |-> "good", origin |-> "guest"]}

MCCapOf == [r \in MCRequests |-> r.cap]
MCOriginOf == [r \in MCRequests |-> r.origin]
MCRegistered == {"read", "write", "skill"}
MCValid == {r \in MCRequests : r.args = "good"}
MCPolicy == [r \in MCRequests |->
               IF r.cap = "write" THEN "Deny"
               ELSE IF r.cap = "read" /\ r.origin = "guest" THEN "RequireApproval"
               ELSE "Allow"]
MCComposite == {"skill"}
=============================================================================
