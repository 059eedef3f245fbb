----------------------------- MODULE MediaSource -----------------------------
(***************************************************************************)
(* What all sources share (media-source lib.rs): a process that is given   *)
(* its arguments, builds a catalogue once and then answers from it.  The   *)
(* three ways to build one are DlnaCatalogue, SubsonicCatalogue and        *)
(* FsCatalogue; Sources composes them.                                     *)
(***************************************************************************)
EXTENDS Naturals, Sequences, FiniteSets, SequencesExt

CONSTANTS
  Args,       \* the command lines a start may have
  MaxStarts   \* bound: starts of the process

VARIABLES
  args,    \* the command line
  starts,  \* the starts so far
  pc,      \* "start", a step of the build, "serving" or "exited"
  cat,     \* the catalogue: items [id, song, texts] and playlists
           \* [id, of, name, tracks]
  missed   \* history: what the build gave up on

common == <<args, starts, pc, cat, missed>>

Nothing == [items |-> <<>>, playlists |-> <<>>]

\* A process begins with nothing.
Begins ==
  /\ args' \in Args
  /\ pc' = "start"
  /\ cat' = Nothing
  /\ missed' = {}

\* Id 1 is the Library's; a source numbers its playlists from here.
FirstListId == 2

\* Fault: the ids start anew for every container.
NumberedAnew(items, first) ==
  [i \in 1 .. Len(items) |-> [id |-> i, song |-> items[i].song, texts |-> items[i].texts]]

\* The items of a listing with the ids they are given from first on.
NumberedFrom(items, first) ==
  [i \in 1 .. Len(items) |->
     [id |-> first + i - 1, song |-> items[i].song, texts |-> items[i].texts]]

Ids(items) == [i \in 1 .. Len(items) |-> items[i].id]

\* The elements that pass a test, in order: SelectSeq, as a definition.
Kept(s, Test(_)) ==
  FlattenSeq([i \in 1 .. Len(s) |-> IF Test(s[i]) THEN <<s[i]>> ELSE <<>>])

-----------------------------------------------------------------------------
(* trait MediaSource.  Every source has one database. *)

DatabaseId == 1

NotFound == "not found"

Tracks(db) == IF db = DatabaseId THEN cat.items ELSE NotFound
Playlists(db) == IF db = DatabaseId THEN cat.playlists ELSE NotFound

\* The entry an id stands for, what is streamed and whose cover is shown: the
\* first with that id.
Entry(db, id) ==
  LET here == {i \in 1 .. Len(cat.items) : cat.items[i].id = id}
  IN  IF db # DatabaseId \/ here = {} THEN NotFound
      ELSE cat.items[CHOOSE i \in here : \A j \in here : i <= j]
=============================================================================
