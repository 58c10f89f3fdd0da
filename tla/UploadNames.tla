---------------------------- MODULE UploadNames ----------------------------
(***************************************************************************)
(* The names of the files of an order, as the upload page derives them     *)
(* from the paths of a dropped folder and as the server turns them into    *)
(* places below the directory of the order.                                *)
(*                                                                         *)
(* A path is the sequence of its UTF-8 bytes, because the page compares    *)
(* bytes and cuts characters.  No path here has a "." or ".." component.   *)
(***************************************************************************)
EXTENDS Integers, Sequences, FiniteSetsExt, SequencesExt

CONSTANTS
  Bytes,
  Continuation,   \* the bytes that are not the first of a character
  Slash

ASSUME BytesAssumption ==
  Continuation \subseteq Bytes /\ Slash \in Bytes \ Continuation

\* str: bytes of which the first does not belong to a character before it.
IsText(name) == name = <<>> \/ Head(name) \notin Continuation

\* str::is_char_boundary
IsCharBoundary(name, n) == n = Len(name) \/ name[n + 1] \notin Continuation

\* UTF-8 is a prefix code: where two names have begun with the same bytes, a
\* character has ended in both or in neither.
EndAlike(p, q) ==
  \A n \in 0..Len(p) :
    n <= Len(q) /\ SubSeq(p, 1, n) = SubSeq(q, 1, n)
      => (IsCharBoundary(p, n) <=> IsCharBoundary(q, n))

-----------------------------------------------------------------------------
(* push_with_path: names are the paths without their common prefix.        *)

CommonLength(p, q) ==
  Max({n \in 0..Len(p) : n <= Len(q) /\ SubSeq(p, 1, n) = SubSeq(q, 1, n)})

\* Mutant of PrefixLength.
BytewisePrefixLength(p, q) == CommonLength(p, q)

PrefixLength(p, q) ==
  Max({k \in 0..CommonLength(p, q) : IsCharBoundary(p, k)})

CommonPrefix(paths) ==
  FoldLeft(LAMBDA prefix, path : SubSeq(prefix, 1, PrefixLength(prefix, path)),
           paths[1], paths)

\* What it is to be: the longest text that every path begins with.
LongestSharedText(paths) ==
  LET Shared(n) == \A i \in DOMAIN paths :
        /\ n <= Len(paths[i])
        /\ SubSeq(paths[i], 1, n) = SubSeq(paths[1], 1, n)
        /\ IsCharBoundary(paths[i], n)
  IN SubSeq(paths[1], 1, Max({n \in 0..Len(paths[1]) : Shared(n)}))

-----------------------------------------------------------------------------
(* safe_path::scoped_join: empty components vanish, so different names may *)
(* denote one place, and the empty name denotes the directory itself.      *)

Joined(place, byte) ==
  IF byte = Slash /\ (place = <<>> \/ Last(place) = Slash) THEN place
  ELSE Append(place, byte)

Place(name) ==
  LET place == FoldLeft(Joined, <<>>, name)
  IN IF place # <<>> /\ Last(place) = Slash THEN Front(place) ELSE place

\* A file cannot be where another one has a directory.
Below(p, q) == IsStrictPrefix(q \o <<Slash>>, p)
Blocked(p, places) == p = <<>> \/ \E q \in places : Below(p, q) \/ Below(q, p)

=============================================================================
