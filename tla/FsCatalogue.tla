---------------------------- MODULE FsCatalogue ----------------------------
(***************************************************************************)
(* How the filesystem backend comes to its catalogue: scan,                *)
(* read_metadata and build_subdir_playlists of media-source-fs lib.rs.     *)
(*                                                                         *)
(* The directories are walked in the order in which the file system lists  *)
(* them; what cannot be read is left out, and a root that does not exist   *)
(* is an empty one.  A path below the root is a sequence of names, a name  *)
(* its rank among all names, and paths are ordered as Path orders them.    *)
(***************************************************************************)
EXTENDS MediaSource

CONSTANTS
  Files,       \* the files below the root, [path, ext, stem, tags]
  AudioExts    \* classify: the extensions that are served

\* A directory is finite, and no two files of it have the same path.
ASSUME FsAssumption ==
  /\ IsFiniteSet(Files)
  /\ \A f \in Files : f.path \in Seq(Nat)
  /\ \A f, g \in Files : f.path = g.path => f = g

VARIABLES
  walk,      \* the files the walk has not come to
  scanned    \* the audio files it found

fsVars == <<walk, scanned>>

FsInit == walk = {} /\ scanned = <<>>

FsForgets == walk' = {} /\ scanned' = <<>>

Scan ==
  /\ pc = "start" /\ args.source = "fs"
  /\ walk' = Files
  /\ pc' = "walk"
  /\ UNCHANGED <<scanned, args, starts, cat, missed>>

\* classify: other files are left out.
WalkFile(f) ==
  /\ pc = "walk"
  /\ walk' = walk \ {f}
  /\ scanned' = IF f.ext \in AudioExts THEN Append(scanned, f) ELSE scanned
  /\ UNCHANGED common

\* The entry or its metadata cannot be read.
WalkError(f) ==
  /\ pc = "walk"
  /\ walk' = walk \ {f}
  /\ missed' = missed \cup {f.path}
  /\ UNCHANGED <<scanned, args, starts, pc, cat>>

\* The order of paths: by the first name that differs.
PathBefore(p, q) ==
  \/ Len(p) < Len(q) /\ p = SubSeq(q, 1, Len(p))
  \/ \E i \in 1 .. Len(p) : i <= Len(q) /\ p[i] < q[i] /\ SubSeq(p, 1, i - 1) = SubSeq(q, 1, i - 1)

\* sort_by: every file goes after those whose path is before its own.
Sorted(files) ==
  [i \in 1 .. Len(files) |->
     CHOOSE f \in ToSet(files) :
       Cardinality({g \in ToSet(files) : PathBefore(g.path, f.path)}) = i - 1]

\* The title falls back to the file's stem, if the tags have none or cannot
\* be read.
TagsOf(f, readable) ==
  LET tags == IF f \in readable THEN f.tags ELSE <<>>
  IN  [t \in DOMAIN tags \cup {"title"} |->
         IF t \in DOMAIN tags THEN tags[t] ELSE f.stem]

\* The directories of the root with files at any depth.
Subdirs(files) == {files[i].path[1] : i \in {j \in 1 .. Len(files) : Len(files[j].path) > 1}}

\* Numbers from the least to the greatest.
InOrder(numbers) ==
  [k \in 1 .. Cardinality(numbers) |->
     CHOOSE n \in numbers : Cardinality({m \in numbers : m < n}) = k - 1]

\* The places of the files below a directory of the root.
Inside(files, dir) ==
  {i \in 1 .. Len(files) : Len(files[i].path) > 1 /\ files[i].path[1] = dir}

\* One playlist for each, in the order of their names; a file of the root
\* itself is in none.
SubdirPlaylists(files) ==
  LET dirs == InOrder(Subdirs(files))
  IN  [d \in DOMAIN dirs |->
         [id |-> FirstListId + d - 1, of |-> dirs[d], name |-> <<dirs[d]>>,
          tracks |-> InOrder(Inside(files, dirs[d]))]]

Scanned ==
  /\ pc = "walk" /\ walk = {}
  /\ \E readable \in SUBSET ToSet(scanned) : \E files \in {Sorted(scanned)} :
       cat' = [items |-> NumberedFrom(
                 [i \in 1 .. Len(files) |->
                    [song |-> files[i].path, texts |-> TagsOf(files[i], readable)]], 1),
               playlists |-> SubdirPlaylists(files)]
  /\ pc' = "serving"
  /\ UNCHANGED <<fsVars, args, starts, missed>>

FsStep == Scan \/ Scanned \/ \E f \in walk : WalkFile(f)

FsFails == \E f \in walk : WalkError(f)

-----------------------------------------------------------------------------
(* What the directory holds, by definition *)

AudioFiles == {f \in Files : f.ext \in AudioExts}
=============================================================================
