------------------------ MODULE MC_MountPropagation ------------------------
(***************************************************************************)
(* Instances of MountPropagation.                                          *)
(***************************************************************************)
EXTENDS MountPropagation

CONSTANTS
  n1, n2,
  MaxMounts,   \* bound: the struct mounts there is memory for
  Crowded      \* bound: with more mounts than this, they are only unmounted

UpToMaxMounts == 1 .. MaxMounts
TwoNs == {n1, n2}
OneDir == {"/d"}

\* The state up to the choice of free mounts and free ids: mounts are numbered as
\* they are met in the trees of the namespaces, a group by its first member.  The
\* last call is a history variable, which no action reads.
Shape ==
  LET order == FoldLeft(LAMBDA s, n : IF root[n] = NULL THEN s ELSE s \o tree_of(Now, root[n]),
                        <<>>, <<InitNs>> \o SetToSeq(Namespaces \ {InitNs}))
      nr == [m \in Mounts \cup {NULL} |-> SelectInSeq(order, LAMBDA x : x = m)]
      Nrs(s) == [i \in DOMAIN s |-> nr[s[i]]]
      group == [g \in Groups \cup {0} |-> SelectInSeq(order, LAMBDA x : mnt[x].group_id = g)]
  IN  <<Cardinality(ida), Cardinality(Mounted), Cardinality({m \in Mounts : mnt[m] = Unused}),
        [i \in DOMAIN order |->
          [mnt[order[i]] EXCEPT
            !.ns = nr[root[@]], !.parent = nr[@], !.share = nr[@], !.master = nr[@],
            !.group_id = IF @ = 0 THEN 0 ELSE group[@],
            !.slave_list = Nrs(@), !.mounts = Nrs(@)]]>>

\* Every call where there are few mounts; where there are many, the calls that
\* take some away.
Room == Cardinality(Mounted) <= Crowded
BoundedNext ==
  \/ Room /\ Loopback
  \/ Room /\ AddMount
  \/ Room /\ MoveMount
  \/ Room /\ ChangeType
  \/ Room /\ DupNs
  \/ Umount \/ Detach \/ PutNs

BoundedSpec == init_mount_tree /\ [][BoundedNext]_vars
=============================================================================
