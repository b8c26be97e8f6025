------------------------------ MODULE Discovery ------------------------------
(***************************************************************************)
(* Which files a command takes (discovery.py).  transcribe-dir walks a     *)
(* directory and inspects what it finds in the order of the relative       *)
(* paths; transcribe inspects the names it is given, in their order.  The  *)
(* inspection goes from name to name and remembers the paths and contents  *)
(* it has seen.                                                            *)
(*                                                                         *)
(* A path is the sequence of names that leads to it from the directory.    *)
(* Two names of one file are two occurrences of its path, and a content    *)
(* stands for the pair of size and hash.  Reading and probing a file may   *)
(* fail for any file, whatever its content.                                *)
(***************************************************************************)
EXTENDS Integers, Order

CONSTANTS
  Dirs, Files,  \* paths of the directories below the root, and of files
  PathOrder,    \* the files, sorted by path
  Contents,     \* what a file may hold
  Trees,        \* the directory trees: their links, excluded directories,
                \* files with a media extension, contents, and whether the
                \* root is a real directory
  MaxNames      \* bound on the number of names given to transcribe

Root == <<>>

ASSUME PathsAssumption ==
  /\ Dirs \subseteq Seq(STRING) \ {Root} /\ Files \subseteq Seq(STRING) \ {Root}
  /\ \A f \in Files : \A n \in 1..Len(f) - 1 : SubSeq(f, 1, n) \in Dirs
  /\ PathOrder \in Seq(Files) /\ ToSet(PathOrder) = Files
ASSUME TreesAssumption ==
  Trees \subseteq [safe : BOOLEAN, links : SUBSET (Dirs \cup Files), excluded : SUBSET Dirs,
                   media : SUBSET Files, content : [Files -> Contents]]
ASSUME MaxNamesAssumption == MaxNames \in Nat

VARIABLES
  tree,        \* what is on the disk
  mode,        \* names given, a directory, or a directory with its subdirectories
  phase,
  walk,        \* the directories that are still to be visited
  found,       \* the files of the visited ones
  candidates,  \* the names to inspect
  at,          \* the one that is next
  seenPaths, seenContent,
  accepted, skipped

walkVars    == <<walk, found>>
inspectVars == <<at, seenPaths, seenContent, accepted, skipped>>
discVars    == <<tree, mode, phase, walkVars, candidates, inspectVars>>

Skip(path, why) == [path |-> path, why |-> why]

DiscInit ==
  /\ tree \in Trees
  /\ \/ mode = "names" /\ phase = "inspect" /\ walk = {}
        /\ candidates \in BoundedSeq(Files, MaxNames)
     \/ mode \in {"flat", "recursive"} /\ phase = "walk" /\ walk = {Root}
        /\ candidates = <<>>
  /\ found = {} /\ at = 1
  /\ seenPaths = {} /\ seenContent = {}
  /\ accepted = <<>> /\ skipped = {}

-----------------------------------------------------------------------------
\* discover_directory raises: the root is a link, or no directory.
RefuseRoot ==
  /\ phase = "walk" /\ walk = {Root} /\ ~tree.safe
  /\ phase' = "refused"
  /\ UNCHANGED <<tree, mode, walkVars, candidates, inspectVars>>

\* Mutant of Visit: links to directories are followed.
VisitThroughLinks(d) ==
  LET children == {c \in Dirs : Front(c) = d}
      excluded == children \cap (tree.excluded \ tree.links)
  IN  /\ phase = "walk" /\ tree.safe /\ d \in walk
      /\ walk' = (walk \ {d}) \cup (IF mode = "recursive" THEN children \ excluded ELSE {})
      /\ found' = found \cup {f \in Files : Front(f) = d}
      /\ skipped' = skipped \cup {Skip(c, "excluded_directory") : c \in excluded}
      /\ UNCHANGED <<tree, mode, phase, candidates, at, seenPaths, seenContent, accepted>>

\* One round of os.walk: links and excluded directories are pruned, the others
\* are visited if that was asked for.
Visit(d) ==
  LET children == {c \in Dirs : Front(c) = d}
      linked   == children \cap tree.links
      excluded == (children \cap tree.excluded) \ linked
  IN  /\ phase = "walk" /\ tree.safe /\ d \in walk
      /\ walk' = (walk \ {d}) \cup
                 (IF mode = "recursive" THEN children \ (linked \cup excluded) ELSE {})
      /\ found' = found \cup {f \in Files : Front(f) = d}
      /\ skipped' = skipped \cup {Skip(c, "symlink") : c \in linked}
                            \cup {Skip(c, "excluded_directory") : c \in excluded}
      /\ UNCHANGED <<tree, mode, phase, candidates, at, seenPaths, seenContent, accepted>>

\* candidates.sort
Sort ==
  /\ phase = "walk" /\ walk = {}
  /\ candidates' \in Picked(PathOrder, found)
  /\ phase' = "inspect"
  /\ UNCHANGED <<tree, mode, walkVars, inspectVars>>

-----------------------------------------------------------------------------
(* _inspect, one candidate after the other.                                *)

Current == candidates[at]

Candidate == phase = "inspect" /\ at <= Len(candidates) /\ at' = at + 1

SkipCurrent(why) ==
  /\ skipped' = skipped \cup {Skip(Current, why)}
  /\ UNCHANGED <<tree, mode, phase, walkVars, candidates, accepted>>

\* A link is not resolved, so its path is not remembered.
SkipLink ==
  /\ Candidate
  /\ Current \in tree.links
  /\ SkipCurrent("symlink")
  /\ UNCHANGED <<seenPaths, seenContent>>

SkipPath ==
  /\ Candidate
  /\ Current \notin tree.links /\ Current \in seenPaths
  /\ SkipCurrent("duplicate_path")
  /\ UNCHANGED <<seenPaths, seenContent>>

NewPath ==
  /\ Candidate
  /\ Current \notin tree.links /\ Current \notin seenPaths
  /\ seenPaths' = seenPaths \cup {Current}

SkipExtension ==
  /\ NewPath
  /\ Current \notin tree.media
  /\ SkipCurrent("unsupported_extension")
  /\ UNCHANGED seenContent

\* Mutant of SkipInvalid: the content is remembered before the file is probed.
SkipInvalidSeen ==
  /\ NewPath
  /\ Current \in tree.media
  /\ SkipCurrent("invalid_media")
  /\ seenContent' = seenContent \cup {tree.content[Current]}

\* stat, the hash or the probe raised.
SkipInvalid ==
  /\ NewPath
  /\ Current \in tree.media
  /\ SkipCurrent("invalid_media")
  /\ UNCHANGED seenContent

SkipContent ==
  /\ NewPath
  /\ Current \in tree.media /\ tree.content[Current] \in seenContent
  /\ SkipCurrent("duplicate_content")
  /\ UNCHANGED seenContent

Accept ==
  /\ NewPath
  /\ Current \in tree.media /\ tree.content[Current] \notin seenContent
  /\ seenContent' = seenContent \cup {tree.content[Current]}
  /\ accepted' = Append(accepted, Current)
  /\ UNCHANGED <<tree, mode, phase, walkVars, candidates, skipped>>

Inspected ==
  /\ phase = "inspect" /\ at > Len(candidates)
  /\ phase' = "discovered"
  /\ UNCHANGED <<tree, mode, walkVars, candidates, inspectVars>>

Discover ==
  \/ RefuseRoot
  \/ \E d \in Dirs \cup {Root} : Visit(d)
  \/ Sort
  \/ SkipLink \/ SkipPath \/ SkipExtension \/ SkipInvalid \/ SkipContent \/ Accept
  \/ Inspected

DiscSpec == DiscInit /\ [][Discover]_discVars
-----------------------------------------------------------------------------
\* A file that the walk may reach: no directory above it is a link or excluded.
Visible(f) ==
  /\ \A n \in 1..Len(f) - 1 : SubSeq(f, 1, n) \notin tree.links \cup tree.excluded
  /\ mode = "flat" => Len(f) = 1

\* The candidates of a directory are the files the walk may reach, all of them,
\* in the order of their paths: what a previous run has put into the output or
\* the cache, or what a link leads to, is never taken for an input
\* (discovery.py:125-140).
FindsTheVisible ==
  phase \in {"inspect", "discovered"} /\ mode # "names" =>
    candidates \in Picked(PathOrder, {f \in Files : Visible(f)})

\* A candidate that is or may be worth a transcription.
Eligible(i) == candidates[i] \in tree.media \ tree.links

\* Every content is transcribed exactly once.  No two accepted files hold the
\* same, and a file that was looked at is accepted, unless it could not be read
\* or an accepted one holds the same: a copy that cannot be read or comes as
\* second name never hides one that can (discovery.py:70-103).
EveryContentOnce ==
  /\ \A i, j \in DOMAIN accepted :
       tree.content[accepted[i]] = tree.content[accepted[j]] => i = j
  /\ \A i \in DOMAIN candidates :
       i < at /\ Eligible(i) =>
         \/ Skip(candidates[i], "invalid_media") \in skipped
         \/ \E k \in DOMAIN accepted :
              tree.content[accepted[k]] = tree.content[candidates[i]]
=============================================================================
