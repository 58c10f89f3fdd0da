--------------------------- MODULE MCUploadFiles ---------------------------
(* Instances of UploadFiles for TLC.  "L" begins two characters of two      *)
(* bytes, "L1" and "L2"; the Makefile is called "Mk".                       *)
EXTENDS UploadFiles
MCBytes == {"r", "/", "M", "k", "m", "a", "L", "1", "2"}
MCContinuation == {"1", "2"}
MCMakefile == <<"M", "k">>
MCSize == [f \in Files |-> IF f = "long" THEN 2 ELSE 1]
At(f, path) == [file |-> f, name |-> path]
\* A folder with a Makefile; one whose two names share half a character; one
\* whose names without the prefix are "/a" and "a".
MCFolders == {
  <<At("long", <<"r", "/", "M", "k">>), At("short", <<"r", "/", "a">>)>>,
  <<At("long", <<"r", "/", "L", "1">>), At("short", <<"r", "/", "L", "2">>)>>,
  <<At("long", <<"r", "/", "L", "1", "/", "a">>), At("other", <<"r", "/", "L", "1", "a">>)>>}
MCNewNames == {MCMakefile, <<"a">>}
=============================================================================
