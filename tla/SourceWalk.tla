------------------------------ MODULE SourceWalk ------------------------------
(* How the files of one registered source are collected                     *)
(* (internal/ingestion/ingestion.go): Walker.Walk, its excludes, its include *)
(* patterns and its limits.                                                  *)
(*                                                                           *)
(* A path is a sequence of names. A pattern is a sequence of names, Star     *)
(* (any one name, the wildcards of path.Match) and Deep (the segment "**").  *)
(* A file says what the walk asks of it: where it leads once its links are   *)
(* resolved, whether it can be examined and read, the size it has of its own *)
(* (for a link the length of what it says), the size of what is read of it,  *)
(* and whether its extension is that of a text. A directory that cannot be   *)
(* listed is in shut; the root is <<>>. The order of the walk is left open.  *)
EXTENDS Naturals, Sequences, FiniteSets, SequencesExt

CONSTANTS
    Star, Deep,         \* the two wildcards
    HardExcludes,       \* the patterns no descriptor can lift
    Trees,              \* the contents a root may have: sets of files
    Shuts,              \* the directories of it that cannot be listed
    Includes, Excludes, \* the pattern sets a descriptor may give
    MaxVisited, MaxFiles, MaxDepth, MaxFileBytes, MaxTotalBytes

ASSUME LimitsAssumption ==
    {MaxVisited, MaxFiles, MaxDepth, MaxFileBytes, MaxTotalBytes} \subseteq Nat

Segmented(path) == path \in Seq(Range(path)) /\ path # <<>>

\* A root holds finitely many files; what is split at "/" has a segment.
ASSUME TreesAssumption ==
    /\ \A t \in Trees : IsFiniteSet(t) /\ \A f \in t : Segmented(f.path) /\ f.size \in Nat
    /\ \A ds \in Shuts : \A d \in ds : d = <<>> \/ Segmented(d)
    /\ \A ps \in {HardExcludes} \cup Includes \cup Excludes : \A p \in ps : Segmented(p)

VARIABLES
    tree, shut, include, exclude,   \* the root and its descriptor
    unseen,       \* the files the walk has still to examine
    visited, count, total,  \* entries examined, files selected, bytes read
    files,      \* the files collected
    walk        \* "walking", "done", "failed" or "late"

walkVars == <<tree, shut, include, exclude, unseen, visited, count, total, files, walk>>

------------------------------------------------------------------------------
(* Patterns *)

SegmentMatches(p, n) == p \in {Star, n}

\* The recursion of matchSegments over the rests of both sequences: for every
\* rest of the pattern, where a rest of the path begins that it matches.
matchSegments(ps, rs) ==
    LET from[i \in 1..Len(ps) + 1] ==
            IF i > Len(ps) THEN {Len(rs) + 1}
            ELSE IF ps[i] = Deep THEN {j \in 1..Len(rs) + 1 : \E k \in from[i + 1] : j <= k}
            ELSE {j \in 1..Len(rs) : SegmentMatches(ps[i], rs[j]) /\ j + 1 \in from[i + 1]}
    IN 1 \in from[1]

Plain(p) == Star \notin Range(p) /\ Deep \notin Range(p)

\* Variant: a pattern is tried against the whole path only.
WholePathOnly(rel, patterns) == \E p \in patterns : matchSegments(p, rel)

\* The whole path, its last name, or a plain pattern that leads to it.
matchAny(rel, patterns) ==
    \E p \in patterns :
        \/ matchSegments(p, rel)
        \/ matchSegments(p, <<Last(rel)>>)
        \/ Plain(p) /\ IsStrictPrefix(p, rel)

------------------------------------------------------------------------------
(* The walk *)

Excluded(rel) == matchAny(rel, HardExcludes) \/ matchAny(rel, exclude)

Above(path) == {SubSeq(path, 1, i) : i \in 0..Len(path) - 1}

\* SkipDir: such a directory is not listed, and nothing under it examined. The
\* root is never skipped.
Skipped(d) == d # <<>> /\ (Excluded(d) \/ Len(d) > MaxDepth)

Pruned(path) == \E d \in Above(path) : Skipped(d)

\* The directories the walk comes to list and cannot.
Barred == {d \in shut : ~Skipped(d) /\ ~Pruned(d)}

\* The checks of a file, up to the one that makes it count.
Selected(f) ==
    /\ ~Excluded(f.path)
    /\ f.leads = "inside"
    /\ include # {} => matchAny(f.path, include)

Readable(f) == f.stat /\ f.text /\ f.readable

\* The file stops the walk. An unselected one can only use up MaxVisited.
BreaksLimit(f) ==
    \/ MaxVisited > 0 /\ visited + 1 > MaxVisited
    \/ /\ Selected(f)
       /\ \/ count + 1 > MaxFiles
          \/ f.stat /\ f.own > MaxFileBytes
          \/ Readable(f) /\ total + f.size > MaxTotalBytes

WalkInit ==
    /\ tree \in Trees /\ include \in Includes /\ exclude \in Excludes
    /\ shut \in Shuts /\ \A f \in tree : f.path \notin shut
    /\ unseen = {f \in tree : ~Pruned(f.path) /\ Above(f.path) \cap shut = {}}
    /\ visited = 0 /\ count = 0 /\ total = 0 /\ files = {}
    /\ walk = "walking"

\* One call of the function WalkDir is given, for a file.
Examine(f) ==
    /\ walk = "walking" /\ f \in unseen
    /\ unseen' = unseen \ {f}
    /\ visited' = visited + 1
    /\ count' = count + (IF Selected(f) THEN 1 ELSE 0)
    /\ IF BreaksLimit(f)
       THEN walk' = "failed" /\ files' = {} /\ UNCHANGED total
       ELSE /\ files' = IF Selected(f) /\ Readable(f) THEN files \cup {f} ELSE files
            /\ total' = IF Selected(f) /\ Readable(f) THEN total + f.size ELSE total
            /\ UNCHANGED walk
    /\ UNCHANGED <<tree, shut, include, exclude>>

\* A directory cannot be listed: the function is called again with the error
\* and returns it, whatever the patterns ask for.
ListFails ==
    /\ walk = "walking" /\ Barred # {}
    /\ walk' = "failed" /\ files' = {}
    /\ UNCHANGED <<tree, shut, include, exclude, unseen, visited, count, total>>

\* The deadline has passed at some entry, a directory maybe.
Timeout ==
    /\ walk = "walking"
    /\ walk' = "late" /\ files' = {}
    /\ UNCHANGED <<tree, shut, include, exclude, unseen, visited, count, total>>

FinishWalk ==
    /\ walk = "walking" /\ unseen = {} /\ Barred = {}
    /\ walk' = "done"
    /\ UNCHANGED <<tree, shut, include, exclude, unseen, visited, count, total, files>>

WalkNext == (\E f \in unseen : Examine(f)) \/ ListFails \/ Timeout \/ FinishWalk

WalkSpec == WalkInit /\ [][WalkNext]_walkVars

------------------------------------------------------------------------------
(* Properties *)

\* What a pattern means: its segments can be laid over the path, one name to
\* each and any number of names to a Deep.
Covers(p, rel) ==
    \E cut \in [1..Len(p) + 1 -> 0..Len(rel)] :
        /\ cut[1] = 0 /\ cut[Len(p) + 1] = Len(rel)
        /\ \A i \in 1..Len(p) :
              IF p[i] = Deep THEN cut[i + 1] >= cut[i]
              ELSE cut[i + 1] = cut[i] + 1 /\ SegmentMatches(p[i], rel[cut[i + 1]])

\* A pattern hides everything below what it names, wherever that is.
Hides(patterns, rel) ==
    \E i \in 1..Len(rel), p \in patterns : Covers(p, SubSeq(rel, 1, i)) \/ Covers(p, <<rel[i]>>)

Asked(rel) ==
    \/ include = {}
    \/ \E p \in include : \/ Covers(p, rel) \/ Covers(p, <<Last(rel)>>)
                          \/ Plain(p) /\ Covers(p \o <<Deep>>, rel)

Wanted == {f \in tree : /\ ~Hides(HardExcludes \cup exclude, f.path)
                        /\ Len(f.path) <= MaxDepth + 1
                        /\ f.leads = "inside" /\ Asked(f.path)}

\* The directories in reach of the descriptor that cannot be listed.
Unlisted == {d \in shut : Len(d) <= MaxDepth /\ ~Hides(HardExcludes \cup exclude, d)}

\* The bytes of some files, counted one by one.
Total(fs) == Cardinality(UNION {{f} \X (1..f.size) : f \in fs})

TooMuch ==
    \/ Cardinality(Wanted) > MaxFiles
    \/ \E f \in Wanted : f.stat /\ f.own > MaxFileBytes
    \/ Total({f \in Wanted : Readable(f)}) > MaxTotalBytes
    \/ MaxVisited > 0 /\ Cardinality({f \in tree : ~Pruned(f.path)}) > MaxVisited

\* The collected files are exactly those the registration means, in whatever
\* order they were met: nothing below an excluded name or outside the root,
\* and nothing selected that is left out, below a directory that could not be
\* listed least of all. A walk fails for one of two reasons. Files count: too
\* many selected files or bytes, one too large, or the limit of the traversal
\* itself (ingestion.go:26, "Files the descriptor never selects do not use up
\* the budget"). Or a directory that is neither excluded nor too deep cannot be
\* listed, and then also when no file under it would be selected
\* (ingestion.go:91-94).
WalkIsDeclared ==
    /\ walk = "done" =>
         /\ files = {f \in Wanted : Readable(f)} /\ Unlisted = {}
         /\ Cardinality(Wanted) <= MaxFiles /\ Total(files) <= MaxTotalBytes
    /\ walk = "failed" => TooMuch \/ Unlisted # {}
==============================================================================
