----------------------------- MODULE MCSkillRun -----------------------------
EXTENDS SkillRun

\* A skill written against pan.py; one that prints and never returns; one that
\* goes on printing after its return; one that sends calls without waiting; two
\* that never end, before and after the return; one that leaves a process behind.
MCScripts == {<<"invoke", "await", "blank", "return">>,
              <<"print", "invoke", "await">>,
              <<"return", "print", "print", "print">>,
              <<"invoke", "invoke", "invoke", "invoke", "invoke", "await">>,
              <<"invoke", "hang">>,
              <<"return", "hang">>,
              <<"fork", "invoke", "await">>}
=============================================================================
