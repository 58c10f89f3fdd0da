----------------------------- MODULE UploadPage -----------------------------
(***************************************************************************)
(* The upload page (frontend/src/upload.rs): the list of dropped files,    *)
(* the quote, and the task that reads the files and posts them.            *)
(*                                                                         *)
(* The task borrows the list while it reads the files.  An edit made then  *)
(* panics in the list's RefCell and changes nothing, so it is no step of   *)
(* this module.  Sizes are in units of one MB factor, not in MB.           *)
(***************************************************************************)
EXTENDS UploadNames

CONSTANTS
  Files, Size,             \* files on the user's disk
  Folders,                 \* what a drop gives: sequences of [file, name]
  NewNames,                \* what the user types over a name
  MakefileName,
  UploadMbFactor, UploadFileFactor,   \* PricingInfo
  BalanceShown,            \* user-info of the page's load
  MaxEdits, MaxPosts       \* bounds

Entry == [file : Files, name : Seq(Bytes)]

ASSUME SizeAssumption    == Size \in [Files -> Nat]
ASSUME FoldersAssumption == Folders \subseteq Seq(Entry) \ {<<>>}
ASSUME PathsAssumption   ==
  \A f \in Folders : \A i, j \in DOMAIN f :
    IsText(f[i].name) /\ EndAlike(f[i].name, f[j].name)
ASSUME NamesAssumption   ==
  NewNames \subseteq {n \in Seq(Bytes) : IsText(n)} /\ MakefileName \in Seq(Bytes)
ASSUME PricesAssumption  ==
  UploadMbFactor \in Nat /\ UploadFileFactor \in Nat /\ BalanceShown \in Int
ASSUME BoundsAssumption  == MaxEdits \in Nat /\ MaxPosts \in Nat

VARIABLES
  dropped_files,  \* the list on the page
  do_upload,      \* the task: "idle", "reading", "posted", "failed" or "answered"
  form,           \* the parts read so far
  pressed,        \* history: the list and the quote when the button was pressed
  route,          \* "upload", "order" or "profile"
  has_token,      \* LocalStorage has a token
  posts,          \* the requests sent: their parts, and pressed
  edits           \* for the bound

pageVars ==
  <<dropped_files, do_upload, form, pressed, route, has_token, posts, edits>>

-----------------------------------------------------------------------------
Cost(size, count) == size * UploadMbFactor + count * UploadFileFactor

Sizes(entries) == [i \in DOMAIN entries |-> Size[entries[i].file]]
TotalSize(entries) == SumFunctionOnSet(Sizes(entries), DOMAIN entries)

\* total_cost, summed over the list while it is rendered
Quote(entries) == Cost(TotalSize(entries), Len(entries))

MakefileExists(entries) == \E i \in DOMAIN entries : entries[i].name = MakefileName

MayOrder(entries) == Quote(entries) <= BalanceShown /\ MakefileExists(entries)

Loading == do_upload \in {"reading", "posted"}

\* An answer takes the page to the order, in a rendering that has no reason
\* to refuse an order.
Rendered(entries, task) ==
  IF task = "answered" /\ MayOrder(entries) THEN "order" ELSE route

Without(entries, name) ==
  FoldLeft(LAMBDA kept, e : IF e.name = name THEN kept ELSE Append(kept, e),
           <<>>, entries)

Pushed(entries, e) == Append(Without(entries, e.name), e)

Paths(folder) == [i \in DOMAIN folder |-> folder[i].name]

Shorten(folder) ==
  LET n == Len(CommonPrefix(Paths(folder)))
  IN [i \in DOMAIN folder |->
        [folder[i] EXCEPT !.name = SubSeq(@, n + 1, Len(@))]]

PageInit ==
  /\ dropped_files = <<>>
  /\ do_upload = "idle"
  /\ form = <<>>
  /\ pressed = [entries |-> <<>>, quote |-> 0]
  /\ route = "upload"
  /\ has_token = TRUE
  /\ posts = <<>>
  /\ edits = 0

-----------------------------------------------------------------------------
(* The user edits the list.                                                *)

\* Mutant of MayEdit.
MayAlwaysEdit == route = "upload" /\ edits < MaxEdits

MayEdit == route = "upload" /\ do_upload # "reading" /\ edits < MaxEdits

Edit(list) ==
  /\ MayEdit
  /\ dropped_files' = list
  /\ route' = Rendered(list, do_upload)
  /\ edits' = edits + 1
  /\ UNCHANGED <<do_upload, form, pressed, has_token, posts>>

PushWithPath(folder) == Edit(FoldLeft(Pushed, dropped_files, Shorten(folder)))

Rename(i, name) == Edit([dropped_files EXCEPT ![i].name = name])

Delete(i) == Edit(Without(dropped_files, dropped_files[i].name))

DeleteAll == Edit(<<>>)

\* In another tab the token is found to be no longer valid.
ForgetToken ==
  /\ has_token
  /\ has_token' = FALSE
  /\ UNCHANGED <<dropped_files, do_upload, form, pressed, route, posts, edits>>

-----------------------------------------------------------------------------
(* The task.  Files are read one by one, with an await for each.           *)

PerformUpload ==
  /\ route = "upload"
  /\ MayOrder(dropped_files) /\ ~Loading
  /\ Len(posts) < MaxPosts
  /\ IF has_token
     THEN do_upload' = "reading" /\ UNCHANGED route
     ELSE do_upload' = "failed" /\ route' = "profile"
  /\ form' = <<>>
  /\ pressed' = [entries |-> dropped_files, quote |-> Quote(dropped_files)]
  /\ UNCHANGED <<dropped_files, has_token, posts, edits>>

ReadFile ==
  /\ do_upload = "reading"
  /\ Len(form) < Len(dropped_files)
  /\ form' = Append(form, dropped_files[Len(form) + 1])
  /\ UNCHANGED <<dropped_files, do_upload, pressed, route, has_token, posts, edits>>

\* array_buffer() is rejected, say because the file is gone.
FailRead ==
  /\ do_upload = "reading"
  /\ Len(form) < Len(dropped_files)
  /\ do_upload' = "failed"
  /\ UNCHANGED <<dropped_files, form, pressed, route, has_token, posts, edits>>

Post ==
  /\ do_upload = "reading"
  /\ Len(form) >= Len(dropped_files)
  /\ do_upload' = "posted"
  /\ posts' = Append(posts, [parts |-> form, entries |-> pressed.entries,
                                 quote |-> pressed.quote])
  /\ UNCHANGED <<dropped_files, form, pressed, route, has_token, edits>>

\* The answer to the last request, or the news that there will be none.
Answered ==
  /\ do_upload = "posted"
  /\ do_upload' = "answered"
  /\ route' = Rendered(dropped_files, "answered")
  /\ UNCHANGED <<dropped_files, form, pressed, has_token, posts, edits>>

Refused ==
  /\ do_upload = "posted"
  /\ do_upload' = "failed"
  /\ UNCHANGED <<dropped_files, form, pressed, route, has_token, posts, edits>>

PageTypeOK ==
  /\ dropped_files \in Seq(Entry) /\ form \in Seq(Entry)
  /\ do_upload \in {"idle", "reading", "posted", "failed", "answered"}
  /\ pressed \in [entries : Seq(Entry), quote : Nat]
  /\ route \in {"upload", "order", "profile"}
  /\ has_token \in BOOLEAN
  /\ posts \in Seq([parts : Seq(Entry), entries : Seq(Entry), quote : Nat])
  /\ Len(posts) <= MaxPosts /\ edits \in 0..MaxEdits
=============================================================================
