------------------------------- MODULE VaultAccess -------------------------------
(* Who may write to a brain vault, and which project a directory belongs to    *)
(* (internal/brain/vault.go): the lock file, the freeze and the schema gate,   *)
(* project registration, and the resolution of a working directory.           *)
(*                                                                            *)
(* The lock is a file made with O_EXCL and removed by name: by its owner, or   *)
(* by a waiter that found it older than a minute. A registration file is read  *)
(* and replaced whole. Directories are sequences of names.                    *)
EXTENDS Naturals, FiniteSets, SequencesExt

CONSTANTS
    Writers,        \* processes that register projects
    SlugOrder,      \* the slugs, in their order
    Roots,          \* directories that may be registered
    Places,         \* working directories asked about
    Markers,        \* directories that hold a .git, with what it says
    MaxAdds, MaxChanges, MaxAges   \* bounds of the instance

ASSUME VaultAccessAssumption ==
    SlugOrder \in Seq(Range(SlugOrder)) /\ \A r \in Roots : r \in Seq(Range(r))

VARIABLES
    skeleton,    \* the vault's directories, and its schema marker
    registered,  \* the roots of every slug's project.yaml
    lockFile,    \* [held, owner, old]
    frozen,
    adding,      \* what every writer is doing
    told,        \* ghost: registrations acknowledged
    slips,       \* ghosts: a lock broken, a barred write
    tries        \* how much of each bound is used

vaultVars == <<skeleton, registered, lockFile, frozen, adding, told, slips, tries>>

Slugs  == Range(SlugOrder)
NoLock == [held |-> FALSE, owner |-> 0, old |-> FALSE]
NoAdd  == [at |-> "idle", slug |-> 0, root |-> <<>>, got |-> {}, barred |-> FALSE]
NoMatch == [slugs |-> {}, depth |-> 0]

VaultInit ==
    /\ skeleton = [made |-> FALSE, schema |-> "absent"] /\ frozen = FALSE
    /\ registered = [s \in Slugs |-> {}] /\ lockFile = NoLock
    /\ adding = [w \in Writers |-> NoAdd] /\ told = {}
    /\ slips = [broken |-> FALSE, barred |-> FALSE]
    /\ tries = [adds |-> 0, changes |-> 0, ages |-> 0]

Used(what) == tries' = [tries EXCEPT ![what] = @ + 1]
Goes(w, changes) == adding' = [adding EXCEPT ![w] = changes]

\* checkSchema: an absent marker is that of a new vault.
checkSchema == skeleton.schema \in {"absent", "ours"}

writable == skeleton.made /\ ~frozen /\ checkSchema

\* Ghost: a call stays barred while the vault is.
StillBarred(barred) == [w \in Writers |-> [adding[w] EXCEPT !.barred = @ /\ barred]]

------------------------------------------------------------------------------
\* Init: directories and, where they are absent, the operator's files. It
\* may be cut off between the two, and is run again.
Init ==
    /\ ~frozen /\ checkSchema
    /\ \/ skeleton' = [made |-> TRUE, schema |-> "ours"]
       \/ skeleton' = [skeleton EXCEPT !.made = TRUE]
    /\ skeleton' # skeleton
    /\ UNCHANGED <<registered, lockFile, frozen, adding, told, slips, tries>>

\* Freeze takes no lock.
Freeze(on) ==
    /\ skeleton.made /\ checkSchema /\ frozen # on /\ tries.changes < MaxChanges
    /\ frozen' = on
    /\ adding' = StillBarred(on)
    /\ Used("changes")
    /\ UNCHANGED <<skeleton, registered, lockFile, told, slips>>

\* A newer binary, or a hand, writes the marker; or it is put right.
ChangeSchema(s) ==
    /\ skeleton.made /\ skeleton.schema # s /\ tries.changes < MaxChanges
    /\ skeleton' = [skeleton EXCEPT !.schema = s]
    /\ adding' = StillBarred(frozen \/ s \notin {"absent", "ours"})
    /\ Used("changes")
    /\ UNCHANGED <<registered, lockFile, frozen, told, slips>>

------------------------------------------------------------------------------
(* AddProject *)

\* The first gate, and the root as it really is.
BeginAdd(w, s, r) ==
    /\ adding[w].at = "idle" /\ writable /\ tries.adds < MaxAdds
    /\ Goes(w, [NoAdd EXCEPT !.at = "lock", !.slug = s, !.root = r])
    /\ Used("adds")
    /\ UNCHANGED <<skeleton, registered, lockFile, frozen, told, slips>>

\* lock: the file is made, or there already.
TakeLock(w) ==
    /\ adding[w].at = "lock" /\ ~lockFile.held
    /\ lockFile' = [held |-> TRUE, owner |-> w, old |-> FALSE]
    /\ Goes(w, [adding[w] EXCEPT !.at = "gate", !.barred = ~writable])
    /\ UNCHANGED <<skeleton, registered, frozen, told, slips, tries>>

\* A waiter sees that the lock is older than a minute ...
SeeStale(w) ==
    /\ adding[w].at = "lock" /\ lockFile.held /\ lockFile.old
    /\ Goes(w, [adding[w] EXCEPT !.at = "break"])
    /\ UNCHANGED <<skeleton, registered, lockFile, frozen, told, slips, tries>>

\* ... and removes the file of that name.
BreakLock(w) ==
    /\ adding[w].at = "break"
    /\ slips' = [slips EXCEPT !.broken = TRUE]
    /\ lockFile' = NoLock
    /\ Goes(w, [adding[w] EXCEPT !.at = "lock"])
    /\ UNCHANGED <<skeleton, registered, frozen, told, tries>>

\* Two seconds are over, or a call fails at any step; the lock it holds is
\* removed by name.
GiveUp(w) ==
    /\ adding[w].at # "idle"
    /\ lockFile' = IF adding[w].at \in {"gate", "read", "write", "done"} THEN NoLock ELSE lockFile
    /\ Goes(w, NoAdd)
    /\ UNCHANGED <<skeleton, registered, frozen, told, slips, tries>>

\* The process dies and its lock file stays.
Dies(w) ==
    /\ adding[w].at # "idle" /\ tries.changes < MaxChanges
    /\ Goes(w, NoAdd) /\ Used("changes")
    /\ UNCHANGED <<skeleton, registered, lockFile, frozen, told, slips>>

\* A minute passes for the lock file, whether its owner lives or not.
AgeLock ==
    /\ lockFile.held /\ ~lockFile.old /\ tries.ages < MaxAges
    /\ lockFile' = [lockFile EXCEPT !.old = TRUE] /\ Used("ages")
    /\ UNCHANGED <<skeleton, registered, frozen, adding, told, slips>>

\* Variant: the vault is not looked at again under the lock.
NoSecondGate(w) ==
    /\ adding[w].at = "gate"
    /\ Goes(w, [adding[w] EXCEPT !.at = "read"])
    /\ UNCHANGED <<skeleton, registered, lockFile, frozen, told, slips, tries>>

\* The second gate, under the lock.
SecondGate(w) ==
    /\ adding[w].at = "gate" /\ writable
    /\ Goes(w, [adding[w] EXCEPT !.at = "read"])
    /\ UNCHANGED <<skeleton, registered, lockFile, frozen, told, slips, tries>>

ReadProject(w) ==
    /\ adding[w].at = "read"
    /\ Goes(w, [adding[w] EXCEPT !.got = registered[adding[w].slug],
                  !.at = IF adding[w].root \in registered[adding[w].slug] THEN "done" ELSE "write"])
    /\ UNCHANGED <<skeleton, registered, lockFile, frozen, told, slips, tries>>

WriteProject(w) ==
    /\ adding[w].at = "write"
    /\ registered' = [registered EXCEPT ![adding[w].slug] = adding[w].got \cup {adding[w].root}]
    /\ slips' = [slips EXCEPT !.barred = @ \/ adding[w].barred]
    /\ Goes(w, [adding[w] EXCEPT !.at = "done"])
    /\ UNCHANGED <<skeleton, lockFile, frozen, told, tries>>

\* The lock is removed by name, and the caller has the project.
FinishAdd(w) ==
    /\ adding[w].at = "done"
    /\ told' = told \cup {<<adding[w].slug, adding[w].root>>}
    /\ lockFile' = NoLock /\ Goes(w, NoAdd)
    /\ UNCHANGED <<skeleton, registered, frozen, slips, tries>>

------------------------------------------------------------------------------
(* ResolveProject *)

Inside(place, root) == IsPrefix(root, place)

\* The registered roots above one of the places, each with its project.
Above(places) ==
    {x \in Slugs \X Roots : x[2] \in registered[x[1]] /\ \E p \in places : Inside(p, x[2])}

\* Variant: a root as deep as the best so far takes its place.
LastOfEqual(best, c) ==
    IF Len(c[2]) >= best.depth THEN [slugs |-> {c[1]}, depth |-> Len(c[2])] ELSE best

\* One turn of the loops of matchRoots, for a root above a place.
Deepest(best, c) ==
    IF Len(c[2]) > best.depth THEN [slugs |-> {c[1]}, depth |-> Len(c[2])]
    ELSE IF Len(c[2]) = best.depth THEN [best EXCEPT !.slugs = @ \cup {c[1]}] ELSE best

\* matchRoots: the projects with the deepest root, found one root after the
\* other.
matchRoots(places) ==
    LET cs == SetToSeq(Above(places))
        best[k \in 0..Len(cs)] == IF k = 0 THEN NoMatch ELSE Deepest(best[k - 1], cs[k])
    IN best[Len(cs)]

\* The checks git-made metadata has to pass in both directions.
Reciprocal(marker) == marker.file /\ marker.pointsBack /\ marker.complete

\* worktreeMainRoot: the nearest .git above decides, by itself.
worktreeMainRoot(place) ==
    LET above == {m \in Markers : Inside(place, m.dir)}
    IN {m.main : m \in {x \in above : /\ \A y \in above : Len(y.dir) <= Len(x.dir)
                                      /\ Reciprocal(x)}}

\* Explicit roots win over the main checkout of a worktree.
ResolveProject(place) ==
    LET explicit == matchRoots({place})
    IN IF explicit.slugs # {} THEN explicit.slugs ELSE matchRoots(worktreeMainRoot(place)).slugs

------------------------------------------------------------------------------
VaultNext ==
    \/ Init \/ AgeLock
    \/ \E on \in BOOLEAN : Freeze(on)
    \/ \E s \in {"ours", "newer"} : ChangeSchema(s)
    \/ \E w \in Writers :
          \/ \E s \in Slugs, r \in Roots : BeginAdd(w, s, r)
          \/ TakeLock(w) \/ SeeStale(w) \/ BreakLock(w) \/ GiveUp(w) \/ Dies(w)
          \/ SecondGate(w) \/ ReadProject(w) \/ WriteProject(w) \/ FinishAdd(w)

VaultSpec == VaultInit /\ [][VaultNext]_vaultVars

------------------------------------------------------------------------------
(* Properties *)

\* An acknowledged registration stays while no lock had to be broken:
\* concurrent registrations lose nothing.
RootsStay == ~slips.broken => \A t \in told : t[2] \in registered[t[1]]

\* A registration that came to the lock while the vault was frozen or of a
\* newer schema, and has been since, writes nothing (vault.go "writable gates
\* every mutating operation").
BarredWritesNothing == ~slips.barred

RegistrationIsKept == RootsStay /\ BarredWritesNothing

\* The project a directory is given is the only one whose root is nearest
\* above it; the main checkout of a worktree is asked only when no root of
\* its own is above the directory, and a tie gives none.
NearestRootDecides ==
    \A place \in Places :
        LET own   == Above({place})
            asked == IF own # {} THEN own ELSE Above(worktreeMainRoot(place))
            found == ResolveProject(place)
        IN /\ (found = {}) <=> (asked = {})
           /\ \A s \in found, t \in asked :
                 \E u \in asked : u[1] = s /\ (Len(t[2]) < Len(u[2])
                                               \/ (Len(t[2]) = Len(u[2]) /\ t[1] \in found))

=============================================================================
