-------------------------------- MODULE Cred --------------------------------
(***************************************************************************)
(* The user and group ids of a thread (userland/cred.cpp): setuid, setgid, *)
(* setresuid, setreuid and their group forms, and the supplementary groups.*)
(***************************************************************************)
EXTENDS Naturals, FiniteSets

LOCAL INSTANCE Sequences

CONSTANTS Ids,        \* user and group ids, with 0
          MaxSupplementary   \* supplementary groups that are given at once

ASSUME CredAssumption == 0 \in Ids /\ Ids \subseteq 0 .. 999 /\ MaxSupplementary \in Nat

NoChange == 1000   \* the argument -1

VARIABLES cred,       \* uids and gids: rid, eid, fsid and sid of each; groups
          dumpable,
          cred_lost   \* history: per set, the ids given up since the thread was last root

cred_vars == <<cred, dumpable, cred_lost>>
IdSet(id) == [rid |-> id, eid |-> id, fsid |-> id, sid |-> id]
Held_ids(s) == {s.rid, s.eid, s.sid}
CredInit ==
    /\ cred = [uids |-> IdSet(0), gids |-> IdSet(0), groups |-> <<>>]
    /\ dumpable = TRUE
    /\ cred_lost = [uids |-> {}, gids |-> {}]
-----------------------------------------------------------------------------
contains(s, id) == id \in Held_ids(s)
\* One capability for all: an effective user id of 0, for groups too.
has_capability == cred.uids.eid = 0
Sets(set, new) ==
    /\ cred' = [cred EXCEPT ![set] = new]
    /\ dumpable' = (dumpable /\ new.eid = cred[set].eid /\ new.fsid = cred[set].fsid)
    /\ cred_lost' = IF cred'.uids.eid = 0 THEN [uids |-> {}, gids |-> {}]
                    ELSE [cred_lost EXCEPT ![set] = @ \cup (Held_ids(cred[set]) \ Held_ids(new))]

setid(set, id) ==
    /\ has_capability \/ contains(cred[set], id)
    /\ Sets(set, IF has_capability THEN IdSet(id)
                 ELSE [cred[set] EXCEPT !.eid = id, !.fsid = id])

\* Mutant: only the effective id is looked at.
Allowed_eid(set, rid, eid, sid) == contains(cred[set], eid) \/ eid = NoChange
Allowed(set, rid, eid, sid) ==
    \A id \in {rid, eid, sid} \ {NoChange} : contains(cred[set], id)
New(old, id) == IF id = NoChange THEN old ELSE id
setresid(set, rid, eid, sid) ==
    LET old == cred[set]
        new == [rid |-> New(old.rid, rid), eid |-> New(old.eid, eid),
                sid |-> New(old.sid, sid), fsid |-> New(old.eid, eid)]
    IN
    /\ has_capability \/ Allowed(set, rid, eid, sid)
    /\ Sets(set, new)

\* klib::qsort: places puts the list into ascending order.
Sorts(places, list) ==
    \A i, j \in DOMAIN list : i < j => /\ places[i] # places[j]
                                      /\ list[places[i]] <= list[places[j]]
Sorted(list) ==
    LET places == CHOOSE p \in [DOMAIN list -> DOMAIN list] : Sorts(p, list)
    IN  [i \in DOMAIN list |-> list[places[i]]]
setgroups(list) ==
    /\ cred' = [cred EXCEPT !.groups = Sorted(list)]
    /\ UNCHANGED <<dumpable, cred_lost>>

CredNext ==
    \/ \E set \in {"uids", "gids"} :
          \/ \E id \in Ids : setid(set, id)
          \/ \E rid, eid, sid \in Ids \cup {NoChange} : setresid(set, rid, eid, sid)
    \/ \E n \in 0 .. MaxSupplementary : \E list \in [1 .. n -> Ids] : setgroups(list)
CredSpec == CredInit /\ [][CredNext]_cred_vars
-----------------------------------------------------------------------------
\* A thread that is not root never holds again an id, of a user or a group, that it
\* has given up; by whatever sequence of calls.
CredGivenUp == \A set \in {"uids", "gids"} : Held_ids(cred[set]) \cap cred_lost[set] = {}

\* The id for the file system follows the effective one, and the groups are sorted.
CredFollows ==
    /\ \A set \in {"uids", "gids"} : cred[set].fsid = cred[set].eid
    /\ \A i, j \in DOMAIN cred.groups : i < j => cred.groups[i] <= cred.groups[j]

\* Credentials: nothing given up comes back, and the copies the checks use follow.
CredSafe == CredGivenUp /\ CredFollows
=============================================================================
