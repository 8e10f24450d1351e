----------------------------- MODULE MCPlugins -----------------------------
(* Two directories.  Files differ in what the properties tell apart: a       *)
(* manifest whose name is the stem or not, none at all, a capability two of  *)
(* them claim, an id two of them carry, and each way to fail loading.        *)
EXTENDS Plugins

File(stem, manifest, error) ==
    [wasm |-> TRUE, stem |-> stem, manifest |-> manifest, error |-> error]
Manifest(name, provides) == [present |-> TRUE, name |-> name, provides |-> provides]
NoManifest == [present |-> FALSE, name |-> "", provides |-> {}]
Dir(files) == [state |-> "present", files |-> files]
Missing == [state |-> "missing", files |-> <<>>]
Unreadable == [state |-> "unreadable", files |-> <<>>]

A == File("a", Manifest("alpha", {"cap.x"}), "none")
B == File("b", Manifest("beta", {"cap.x", "cap.y"}), "none")
A2 == File("a2", Manifest("alpha", {"cap.y"}), "none")
C == File("c", NoManifest, "none")
Note == [File("note", NoManifest, "none") EXCEPT !.wasm = FALSE]
Bad(e) == File("bad", NoManifest, e)

MCDisks ==
    {<<Missing, Dir(<<>>)>>, <<Dir(<<A>>), Dir(<<B, C>>)>>, <<Dir(<<B, Note>>), Dir(<<A>>)>>,
     <<Dir(<<A>>), Dir(<<A2>>)>>, <<Dir(<<C, A2>>), Missing>>, <<Dir(<<A>>), Unreadable>>}
        \cup {<<Dir(<<A, Bad(e)>>), Missing>> : e \in {"ManifestIo", "ManifestParse",
                                                     "ManifestValidation", "WasmLoad"}}
MCNatives == <<"n1", "n2">>
=============================================================================
