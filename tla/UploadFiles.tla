---------------------------- MODULE UploadFiles ----------------------------
(***************************************************************************)
(* upload_order (upload.rs) under the upload page: the handler that copies *)
(* the parts of a request into the directory of a new order, and the disk. *)
(*                                                                         *)
(* A request and its order carry the number of the request in posts.  The  *)
(* manager's part is the subject of OrderLifecycle.  tokio's write_all     *)
(* returns when the data is handed to the blocking pool, and the file is   *)
(* dropped without a flush: the writes of a request are applied later, in  *)
(* any order.  A file is written by one such write (it is at most 2 MB).   *)
(***************************************************************************)
EXTENDS UploadPage

VARIABLES
  handlers,   \* request -> where its handler is: pc, file_list and size
  disk,       \* request -> the files below /compile/{id}: place -> content
  pending     \* writes handed to the blocking pool

vars == <<pageVars, handlers, disk, pending>>

Requests == 1..MaxPosts
Content == Seq(Files)        \* of each unit of size, the file it is from
Write == [request : Requests, place : Seq(Bytes), file : Files]

-----------------------------------------------------------------------------
\* An open without truncate: what is longer than the data stays.
Overlay(old, file) ==
  [k \in 1..Max({Len(old), Size[file]}) |-> IF k <= Size[file] THEN file ELSE old[k]]

\* OpenOptions::create: what is there already is kept.
Create(files, place) ==
  [p \in DOMAIN files \cup {place} |-> IF p \in DOMAIN files THEN files[p] ELSE <<>>]

Init ==
  /\ PageInit
  /\ handlers = [r \in Requests |-> [pc |-> "new", file_list |-> <<>>, size |-> 0]]
  /\ disk = [r \in Requests |-> [p \in {} |-> <<>>]]
  /\ pending = {}

\* The token is that of a verified account, and the manager answers an id.
Allocate(r) ==
  /\ r <= Len(posts) /\ handlers[r].pc = "new"
  /\ handlers' = [handlers EXCEPT ![r].pc = "copying"]
  /\ UNCHANGED <<pageVars, disk, pending>>

\* No such token, an unverified account or a failing statement; later, a
\* client that is gone or a failing directory operation.  The order stays.
Abandon(r) ==
  /\ r <= Len(posts) /\ handlers[r].pc \in {"new", "copying"}
  /\ handlers' = [handlers EXCEPT ![r].pc = "failed"]
  /\ UNCHANGED <<pageVars, disk, pending>>

NextPart(r) == posts[r].parts[Len(handlers[r].file_list) + 1]

\* Mutants of ListPart and OpenPart.
ListPartOnce(h, part) ==
  [h EXCEPT !.file_list = Append(@, part.name),
            !.size = IF part.name \in Range(h.file_list) THEN @ ELSE @ + Size[part.file]]
OpenExistingPart(r, part) ==
  /\ UNCHANGED disk
  /\ pending' = pending \cup
       {[request |-> r, place |-> Place(part.name), file |-> part.file]}

ListPart(h, part) ==
  [h EXCEPT !.file_list = Append(@, part.name), !.size = @ + Size[part.file]]

OpenPart(r, part) ==
  /\ disk' = [disk EXCEPT ![r] = Create(@, Place(part.name))]
  /\ pending' = pending \cup
       {[request |-> r, place |-> Place(part.name), file |-> part.file]}

CopyPart(r) ==
  /\ handlers[r].pc = "copying"
  /\ Len(handlers[r].file_list) < Len(posts[r].parts)
  /\ LET part == NextPart(r)
         blocked == Blocked(Place(part.name), DOMAIN disk[r])
     IN /\ handlers' = [handlers EXCEPT ![r] =
             [ListPart(@, part) EXCEPT !.pc = IF blocked THEN "failed" ELSE "copying"]]
        /\ IF blocked THEN UNCHANGED <<disk, pending>> ELSE OpenPart(r, part)
  /\ UNCHANGED pageVars

ApplyWrite(w) ==
  /\ disk' = [disk EXCEPT ![w.request][w.place] = Overlay(@, w.file)]
  /\ pending' = pending \ {w}
  /\ UNCHANGED <<pageVars, handlers>>

\* UploadFiles to the manager, and the answer.
Submit(r) ==
  /\ handlers[r].pc = "copying"
  /\ Len(handlers[r].file_list) = Len(posts[r].parts)
  /\ handlers' = [handlers EXCEPT ![r].pc = "done"]
  /\ UNCHANGED <<pageVars, disk, pending>>

ServerStep ==
  \/ \E r \in Requests : Allocate(r) \/ Abandon(r) \/ CopyPart(r) \/ Submit(r)
  \/ \E w \in pending : ApplyWrite(w)

-----------------------------------------------------------------------------
PageStep ==
  \/ \E folder \in Folders : PushWithPath(folder)
  \/ \E i \in DOMAIN dropped_files : Delete(i) \/ \E n \in NewNames : Rename(i, n)
  \/ DeleteAll \/ ForgetToken
  \/ PerformUpload \/ ReadFile \/ FailRead \/ Post
  \/ Refused
  \/ Answered /\ handlers[Len(posts)].pc = "done"

Next ==
  \/ PageStep /\ UNCHANGED <<handlers, disk, pending>>
  \/ ServerStep

Spec == Init /\ [][Next]_vars

-----------------------------------------------------------------------------
(* Properties.                                                             *)

\* Variables have their types, and every write that was handed over has an
\* opened file to go to (OpenOptions::create, upload.rs:78).
TypeOK ==
  /\ PageTypeOK
  /\ handlers \in [Requests -> [pc : {"new", "copying", "done", "failed"},
                                file_list : Seq(Seq(Bytes)), size : Nat]]
  /\ \A r \in Requests :
       /\ DOMAIN disk[r] \subseteq Seq(Bytes)
       /\ \A p \in DOMAIN disk[r] : disk[r][p] \in Content
  /\ pending \subseteq Write
  /\ \A w \in pending : w.place \in DOMAIN disk[w.request]

Final(r) == handlers[r].pc = "done" /\ \A w \in pending : w.request # r

\* The files a user saw in the list when pressing the button are the files of
\* the order, although the list may be edited before the answer and again
\* before a retry, parts of one name are written over each other, and writes
\* are applied in any order: each place has the units of the files of that
\* name and no others, and the whole file where the name was given once.
FilesAreTheParts ==
  \A r \in Requests : Final(r) =>
    LET seen == posts[r].entries
        at(p) == {seen[i].file : i \in {j \in DOMAIN seen : Place(seen[j].name) = p}}
    IN /\ DOMAIN disk[r] = {Place(seen[i].name) : i \in DOMAIN seen}
       /\ \A p \in DOMAIN disk[r] :
            /\ Range(disk[r][p]) \subseteq at(p)
            /\ \A f \in at(p) :
                 at(p) = {f} => disk[r][p] = [k \in 1..Size[f] |-> f]

\* The upload costs of an order are those the page showed when the button was
\* pressed, and no more than the balance it showed, although the page sums
\* them over its list while the server counts the parts that arrive.
QuoteIsCharged ==
  \A r \in Requests : handlers[r].pc = "done" =>
    /\ Cost(handlers[r].size, Len(handlers[r].file_list)) = posts[r].quote
    /\ posts[r].quote <= BalanceShown

\* A dropped folder is listed by what its paths have after the longest text
\* that all of them begin with: the byte-wise comparison never cuts a
\* character in two (which would panic), nor keeps a character that is shared.
DropKeepsCharacters ==
  [][\A folder \in Folders : PushWithPath(folder) =>
       LET shared == LongestSharedText(Paths(folder))
           names == {dropped_files'[k].name : k \in DOMAIN dropped_files'}
       IN /\ \A n \in names : IsText(n)
          /\ \A i \in DOMAIN folder :
               \E n \in names : folder[i].name = shared \o n]_dropped_files
=============================================================================
