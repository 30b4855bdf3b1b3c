--------------------------- MODULE MountPropagation ---------------------------
(***************************************************************************)
(* The mount trees of the mount namespaces and the propagation of mount     *)
(* events between them: shared mounts form peer groups, a slave receives    *)
(* from its master, and what is mounted on or unmounted from a mount is     *)
(* repeated on every mount that receives from it.                          *)
(*                                                                         *)
(* fs/pnode.c      do_make_slave, change_mnt_propagation, propagation_next, *)
(*                 get_source, propagate_mnt, propagate_mount_busy,        *)
(*                 propagate_umount                                        *)
(* fs/namespace.c  clone_mnt, copy_tree, umount_tree, attach_recursive_mnt, *)
(*                 do_loopback, do_move_mount, do_add_mount, do_umount,     *)
(*                 do_change_type, dup_mnt_ns, put_mnt_ns                  *)
(*                                                                         *)
(* Every call holds namespace_sem for writing from its first look at the    *)
(* mounts to its last change, so a call is one step.  What can go wrong is  *)
(* inside it: the walk over the propagation tree inserts into the lists it  *)
(* follows, the copies are linked before they are known to be wanted, and   *)
(* an allocation can fail after any of them.  The functions of the code are *)
(* operators from a state `v' to the state they leave:                      *)
(*   v.mnt   the mounts; v.ida  the peer group ids in use;                  *)
(*   v.ret   the mount returned, NULL for an error;                         *)
(*   v.oops  the function that has followed a NULL mount or met a BUG_ON(). *)
(* An allocation fails when no Mounts, or no Groups, are left.  All mounts  *)
(* are of one file system, whose directories are its root and SubDirs.      *)
(***************************************************************************)
EXTENDS Naturals, FiniteSets, Sequences, SequencesExt, FiniteSetsExt

CONSTANTS
  Mounts,       \* the struct mounts there is memory for
  Groups,       \* the peer group ids that can be allocated
  Namespaces,   \* the mount namespaces
  InitNs,       \* the first one, which is never destroyed
  SubDirs,      \* the directories below the root "/" of the file system
  NULL

ASSUME Sizes ==
  /\ Mounts \subseteq Nat /\ 1 \in Mounts /\ IsFiniteSet(Mounts)
  /\ Groups \subseteq Nat \ {0} /\ IsFiniteSet(Groups)
ASSUME Kinds ==
  /\ InitNs \in Namespaces /\ "/" \notin SubDirs
  /\ NULL \notin Mounts /\ NULL \notin Namespaces /\ NULL \notin SubDirs

VARIABLES
  mnt,     \* the mounts
  ida,     \* mnt_group_ida
  root,    \* ns->root of each namespace, NULL where there is no namespace
  call     \* the last system call and its outcome

vars == <<mnt, ida, root, call>>

Dentries == {"/"} \cup SubDirs

Unused ==
  [ns |-> NULL, parent |-> NULL, mountpoint |-> NULL, root |-> NULL,
   shared |-> FALSE, unbindable |-> FALSE, group_id |-> 0, share |-> NULL,
   master |-> NULL, slave_list |-> <<>>, mounts |-> <<>>]

\* A mount as alloc_vfsmnt() leaves it, with the given root.
alloc_vfsmnt(m, dentry) ==
  [Unused EXCEPT !.parent = m, !.mountpoint = dentry, !.root = dentry, !.share = m]

is_subdir(new, old) == new = old \/ old = "/"
IS_MNT_NEW(v, m) == v.mnt[m].ns = NULL

\* Do of the value of x, as a statement that follows the one that computes x.
With(x, Do(_)) == Do(x)

Fail(v) == [v EXCEPT !.ret = NULL]
Oops(v, in) == [v EXCEPT !.ret = NULL, !.oops = in]
\* (fault) A copy of a slave goes to the end of its master's list.
InsertLast(s, x, e) == Append(s, e)
InsertAfter(s, x, e) == InsertAt(s, 1 + SelectInSeq(s, LAMBDA y : y = x), e)
----------------------------------------------------------------------------
(* Peer group ids.                                                         *)

\* mnt_group_start is the lowest free id or below it.
mnt_alloc_group_id(v, m) ==
  IF Groups \subseteq v.ida THEN Fail(v)
  ELSE LET id == Min(Groups \ v.ida)
       IN  [v EXCEPT !.ida = @ \cup {id}, !.mnt[m].group_id = id]

\* (fault) The id is forgotten but stays allocated.
leak_group_id(v, m) == [v EXCEPT !.mnt[m].group_id = 0]

mnt_release_group_id(v, m) ==
  [v EXCEPT !.ida = @ \ {v.mnt[m].group_id}, !.mnt[m].group_id = 0]

set_mnt_shared(v, m) == [v EXCEPT !.mnt[m].unbindable = FALSE, !.mnt[m].shared = TRUE]

----------------------------------------------------------------------------
(* Trees of mounts.                                                        *)

\* The mounts in the order next_mnt() visits them.
RECURSIVE tree_of(_, _)
tree_of(v, m) ==
  FoldLeft(LAMBDA s, c : s \o tree_of(v, c), <<m>>, v.mnt[m].mounts)

attach_mnt(v, m, parent, mp) ==
  [v EXCEPT !.mnt[m].mountpoint = mp, !.mnt[m].parent = parent,
            !.mnt[parent].mounts = Append(@, m)]

\* (fault) The mount stays in mnt_mounts of its old parent.
detach_but_listed(v, m) == [v EXCEPT !.mnt[m].parent = m, !.mnt[m].mountpoint = v.mnt[m].root]

detach_mnt(v, m) ==
  [v EXCEPT !.mnt[v.mnt[m].parent].mounts = Remove(@, m),
            !.mnt[m].parent = m, !.mnt[m].mountpoint = v.mnt[m].root]

\* The mount last attached to m at dentry and still in the hash table.
__lookup_mnt(v, m, dentry, unhashed) ==
  LET at == SelectSeq(v.mnt[m].mounts,
              LAMBDA c : v.mnt[c].mountpoint = dentry /\ c \notin unhashed)
  IN  IF at = <<>> THEN NULL ELSE Last(at)

\* Puts a copied tree, its mountpoint set, into the namespace of its parent.
commit_tree(v, m) ==
  LET tree == ToSet(tree_of(v, m))
      parent == v.mnt[m].parent
  IN  [v EXCEPT !.mnt = [x \in tree |-> [v.mnt[x] EXCEPT !.ns = v.mnt[parent].ns]]
                        @@ [v.mnt EXCEPT ![parent].mounts = Append(@, m)]]
----------------------------------------------------------------------------
(* Changing the propagation type.                                          *)

\* The mounts met by next_peer() from m on, until it is back at m.
peers_after(v, m) ==
  LET RECURSIVE from(_)
      from(p) == IF p = m THEN <<>> ELSE <<p>> \o from(v.mnt[p].share)
  IN  from(v.mnt[m].share)

\* (fault) The peers are passed over.
master_of_group(v, m, peers) == v.mnt[m].master

\* The master that m and its slaves get: the next of its peers with the same root, any
\* other peer, or the master of the whole group.
new_master(v, m, peers) ==
  IF peers = <<>> THEN v.mnt[m].master
  ELSE Head(SelectSeq(peers, LAMBDA p : v.mnt[p].root = v.mnt[m].root) \o peers)

do_make_slave(v, m) ==
  With(peers_after(v, m), LAMBDA peers :
  LET master == new_master(v, m, peers)
      slaves == v.mnt[m].slave_list
  IN  With(IF v.mnt[m].group_id # 0 /\ v.mnt[m].shared /\ peers = <<>>
           THEN mnt_release_group_id(v, m) ELSE v, LAMBDA w :
      [w EXCEPT !.mnt =
         [x \in ToSet(peers \o slaves) \cup ({v.mnt[m].master, master} \ {NULL}) |->
            [w.mnt[x] EXCEPT
               !.share = IF @ = m THEN w.mnt[m].share ELSE @,
               !.master = IF Contains(slaves, x) THEN master ELSE @,
               !.slave_list = IF x = master THEN <<m>> \o Remove(@, m) \o slaves
                              ELSE Remove(@, m)]]
         @@ [w.mnt EXCEPT ![m].share = m, ![m].group_id = 0, ![m].shared = FALSE,
                          ![m].master = master, ![m].slave_list = <<>>]]))

change_mnt_propagation(v, m, type) ==
  IF type = "shared" THEN set_mnt_shared(v, m)
  ELSE With(do_make_slave(v, m), LAMBDA w :
         IF type = "slave" THEN w
         ELSE [w EXCEPT !.mnt =
                [x \in {w.mnt[m].master} \ {NULL} |-> [w.mnt[x] EXCEPT !.slave_list = Remove(@, m)]]
                @@ [w.mnt EXCEPT ![m].master = NULL, ![m].unbindable = type = "unbindable"]])

----------------------------------------------------------------------------
(* The propagation tree of a mount.                                        *)

\* Up from m to the first mount that has a successor in the walk.
RECURSIVE next_or_up(_, _, _)
next_or_up(v, m, origin) ==
  LET master == v.mnt[m].master
      next == v.mnt[m].share
  IN  IF master = v.mnt[origin].master THEN IF next = origin THEN NULL ELSE next
      ELSE LET list == v.mnt[master].slave_list
               i == SelectInSeq(list, LAMBDA x : x = m)
           IN  IF i # Len(list) THEN list[i + 1] ELSE next_or_up(v, master, origin)

\* (fault) The slaves are not entered.
next_without_slaves(v, m, origin) == next_or_up(v, m, origin)

propagation_next(v, m, origin) ==
  IF ~IS_MNT_NEW(v, m) /\ v.mnt[m].slave_list # <<>> THEN Head(v.mnt[m].slave_list)
  ELSE next_or_up(v, m, origin)

\* All that propagation_next() returns for origin, in its order.
propagation(v, origin) ==
  LET RECURSIVE after(_)
      after(m) == LET next == propagation_next(v, m, origin)
                  IN  IF next = NULL THEN <<>> ELSE <<next>> \o after(next)
  IN  after(origin)
----------------------------------------------------------------------------
(* Unmounting.                                                             *)

\* The children that go with m, at the same place of the mounts its parent
\* propagates to, unless they have children of their own.
__propagate_umount(v, m, unhashed) ==
  LET At(x) == __lookup_mnt(v, x, v.mnt[m].mountpoint, unhashed)
      Goes(x) == At(x) # NULL /\ v.mnt[At(x)].mounts = <<>>
      from == SelectSeq(propagation(v, v.mnt[m].parent), Goes)
  IN  [i \in DOMAIN from |-> At(from[i])]

\* The list of the mounts to unmount, each preceded by those that go with it.
propagate_umount(v, list) ==
  FoldLeft(LAMBDA all, m :
             all \o __propagate_umount(v, m, ToSet(list) \cup ToSet(all)) \o <<m>>,
           <<>>, list)

umount_tree(v, m, propagate) ==
  LET Umount1(w, p) == change_mnt_propagation(
        [w EXCEPT !.mnt[p].ns = NULL, !.mnt[w.mnt[p].parent].mounts = Remove(@, p)],
        p, "private")
  IN  With(Reverse(tree_of(v, m)), LAMBDA tmp_list :
        FoldLeft(Umount1, v, IF propagate THEN propagate_umount(v, tmp_list) ELSE tmp_list))

\* (fault) Only m itself is looked at.
mount_busy(v, m, busy) == v.mnt[m].mounts # <<>> \/ m \in busy

\* Some mount that would go with m, or m itself, is in use or has children.
propagate_mount_busy(v, m, busy) ==
  IF v.mnt[m].parent = m THEN m \in busy
  ELSE \/ v.mnt[m].mounts # <<>> \/ m \in busy
       \/ \E x \in ToSet(propagation(v, v.mnt[m].parent)) :
            LET child == __lookup_mnt(v, x, v.mnt[m].mountpoint, {})
            IN  child # NULL /\ v.mnt[child].mounts = <<>> /\ child \in busy
----------------------------------------------------------------------------
(* Copying.                                                                *)

clone_mnt(v, old, dentry, flag) ==
  LET o == v.mnt[old]
      free == {m \in Mounts : v.mnt[m].root = NULL}
      new == Min(free)
      as_slave == "SLAVE" \in flag \/ ("SHARED_TO_SLAVE" \in flag /\ o.shared)
      as_peer == ~as_slave /\ ("MAKE_SHARED" \in flag \/ o.shared)
      group_id == IF {"SLAVE", "SHARED_TO_SLAVE"} \cap flag # {} THEN 0 ELSE o.group_id
      record == [alloc_vfsmnt(new, dentry) EXCEPT
                   !.shared = "MAKE_SHARED" \in flag \/ (o.shared /\ ~as_slave),
                   !.unbindable = o.unbindable /\ "MAKE_SHARED" \notin flag,
                   !.group_id = group_id,
                   !.share = IF as_peer THEN o.share ELSE @,
                   !.master = IF as_slave THEN old ELSE o.master]
      linked == [x \in {old, o.master} \ {NULL} |->
        [v.mnt[x] EXCEPT
           !.share = IF x = old /\ as_peer THEN new ELSE @,
           !.slave_list = IF x = old /\ as_slave THEN <<new>> \o @
                          ELSE IF x = o.master /\ ~as_slave THEN InsertAfter(@, old, new)
                          ELSE @]]
      invent == "MAKE_SHARED" \in flag /\ group_id = 0
  IN  IF free = {} \/ (invent /\ Groups \subseteq v.ida) THEN Fail(v)
      ELSE With([v EXCEPT !.mnt = new :> record @@ linked @@ @, !.ret = new], LAMBDA w :
             IF invent THEN mnt_alloc_group_id(w, new) ELSE w)

\* Copies s and what is mounted below it, to be mounted on parent.
RECURSIVE copy_below(_, _, _, _)
copy_below(v, s, parent, flag) ==
  IF v.ret = NULL \/ ("COPY_ALL" \notin flag /\ v.mnt[s].unbindable) THEN v
  ELSE With(clone_mnt(v, s, v.mnt[s].root, flag), LAMBDA q :
         IF q.ret = NULL THEN q
         ELSE FoldLeft(LAMBDA w, c : copy_below(w, c, q.ret, flag),
                       attach_mnt(q, q.ret, parent, v.mnt[s].mountpoint),
                       v.mnt[s].mounts))

copy_tree(v, m, dentry, flag) ==
  IF "COPY_ALL" \notin flag /\ v.mnt[m].unbindable THEN Fail(v)
  ELSE With(clone_mnt(v, m, dentry, flag), LAMBDA res :
    IF res.ret = NULL THEN res
    ELSE With(FoldLeft(
                LAMBDA w, c : copy_below(w, c, res.ret, flag),
                [res EXCEPT !.mnt[res.ret].mountpoint = v.mnt[m].mountpoint],
                SelectSeq(v.mnt[m].mounts, LAMBDA c : is_subdir(v.mnt[c].mountpoint, dentry))),
           LAMBDA w : IF w.ret = NULL THEN Fail(umount_tree(w, res.ret, FALSE))
                      ELSE [w EXCEPT !.ret = res.ret]))

----------------------------------------------------------------------------
(* Propagating a mount.                                                    *)

\* The mount to clone for dest and how, from the last destination and its copy;
\* NULL when the walk up the masters runs off their end.
get_source(v, dest, last_dest, last_src) ==
  LET RECURSIVE up(_, _, _, _)
      up(d, s, p_d, p_s) ==
        IF d = v.mnt[dest].master THEN [src |-> s, p_dest |-> p_d, p_src |-> p_s]
        ELSE IF d = NULL \/ s = NULL THEN [src |-> NULL, p_dest |-> NULL, p_src |-> NULL]
        ELSE up(v.mnt[d].master, v.mnt[s].master, d, s)
      PeerOf(m) == Head(SelectSeq(peers_after(v, m) \o <<m>>, LAMBDA p : ~IS_MNT_NEW(v, p)))
  IN  With(up(last_dest, last_src, NULL, NULL), LAMBDA last :
        IF last.p_dest # NULL /\ dest = PeerOf(last.p_dest)
        THEN [source |-> last.p_src, type |-> {"MAKE_SHARED"}]
        ELSE [source |-> last.src,
              type |-> {"SLAVE"} \cup IF v.mnt[dest].shared THEN {"MAKE_SHARED"} ELSE {}])

\* (fault) The last destination is not remembered with its copy.
place_without_dest(s, m, w, dest_mp) ==
  IF w.ret = NULL THEN [s EXCEPT !.v = w, !.m = NULL, !.drop = @ \o s.trees]
  ELSE IF is_subdir(dest_mp, w.mnt[m].root)
  THEN [s EXCEPT !.v = [w EXCEPT !.mnt[w.ret].parent = m, !.mnt[w.ret].mountpoint = dest_mp],
                 !.m = m, !.src = w.ret, !.trees = Append(@, w.ret)]
  ELSE [s EXCEPT !.v = w, !.m = m, !.src = w.ret, !.drop = Append(@, w.ret)]

\* After the copy for m, left by copy_tree() in w, of the walk in s: s.dest and s.src
\* are the last destination and its copy, s.trees the copies to attach, s.drop the others.
place(s, m, w, dest_mp) ==
  IF w.ret = NULL THEN [s EXCEPT !.v = w, !.m = NULL, !.drop = @ \o s.trees]
  ELSE IF is_subdir(dest_mp, w.mnt[m].root)
  THEN [s EXCEPT !.v = [w EXCEPT !.mnt[w.ret].parent = m, !.mnt[w.ret].mountpoint = dest_mp],
                 !.m = m, !.dest = m, !.src = w.ret, !.trees = Append(@, w.ret)]
  ELSE [s EXCEPT !.v = w, !.m = m, !.dest = m, !.src = w.ret, !.drop = Append(@, w.ret)]

copy_for(s, m, dest_mp) ==
  With(get_source(s.v, m, s.dest, s.src), LAMBDA from :
    place(s, m, IF from.source = NULL THEN Oops(s.v, "get_source")
                ELSE copy_tree(s.v, from.source, s.v.mnt[from.source].root, from.type), dest_mp))

\* The walk, from s.m on; NULL at its end and where a copy failed.
RECURSIVE propagate_from(_, _, _)
propagate_from(s, dest_mnt, dest_mp) ==
  IF s.m = NULL THEN s
  ELSE With(propagation_next(s.v, s.m, dest_mnt), LAMBDA m :
         propagate_from(IF m = NULL \/ IS_MNT_NEW(s.v, m) THEN [s EXCEPT !.m = m]
                        ELSE copy_for(s, m, dest_mp), dest_mnt, dest_mp))

\* The state with the unwanted copies dropped, and the copies to attach.
propagate_mnt(v, dest_mnt, dest_mp, source_mnt) ==
  With(propagate_from([v |-> v, m |-> dest_mnt, dest |-> dest_mnt, src |-> source_mnt,
                       trees |-> <<>>, drop |-> <<>>], dest_mnt, dest_mp),
    LAMBDA s : [v |-> FoldLeft(LAMBDA w, c : umount_tree(w, c, FALSE), s.v, s.drop),
                trees |-> s.trees])

cleanup_group_ids(v, list) ==
  FoldLeft(LAMBDA w, p : IF w.mnt[p].group_id # 0 /\ ~w.mnt[p].shared
                         THEN mnt_release_group_id(w, p) ELSE w, v, list)

\* An id for every mount of the list that is to become shared, or for none.
invent_group_ids(v, list) ==
  With(FoldLeft(LAMBDA w, p : IF w.ret # NULL /\ w.mnt[p].group_id = 0 /\ ~w.mnt[p].shared
                              THEN mnt_alloc_group_id(w, p) ELSE w, v, list),
    LAMBDA w : IF w.ret = NULL THEN cleanup_group_ids(w, list) ELSE w)

\* What attach_recursive_mnt() does once no allocation can fail.
attach_trees(v, trees, list, dest_mnt, dest_mp, moves) ==
  LET source_mnt == Head(list)
  IN  With(IF v.mnt[dest_mnt].shared THEN FoldLeft(set_mnt_shared, v, list) ELSE v, LAMBDA w :
        FoldLeft(commit_tree,
          IF moves THEN attach_mnt(detach_mnt(w, source_mnt), source_mnt, dest_mnt, dest_mp)
          ELSE commit_tree([w EXCEPT !.mnt[source_mnt].parent = dest_mnt,
                                     !.mnt[source_mnt].mountpoint = dest_mp], source_mnt),
          trees))

\* Mounts the tree of source_mnt on dest_mnt, taken from its place if it moves.
attach_recursive_mnt(v, source_mnt, dest_mnt, dest_mp, moves) ==
  LET shared == v.mnt[dest_mnt].shared
  IN  With(tree_of(v, source_mnt), LAMBDA list :
      With(IF shared THEN invent_group_ids(v, list) ELSE v, LAMBDA w :
        IF w.ret = NULL THEN w
        ELSE With(propagate_mnt(w, dest_mnt, dest_mp, source_mnt), LAMBDA p :
               IF p.v.ret = NULL THEN IF shared THEN cleanup_group_ids(p.v, list) ELSE p.v
               ELSE [attach_trees(p.v, p.trees, list, dest_mnt, dest_mp, moves)
                       EXCEPT !.ret = source_mnt])))
----------------------------------------------------------------------------
(* The system calls.                                                       *)

Now == [mnt |-> mnt, ida |-> ida, ret |-> 1, oops |-> "none"]

Mounted == {m \in Mounts : mnt[m].ns # NULL}

\* The end of a call: namespace_unlock() drops what was unmounted.
Return(v, what) ==
  /\ mnt' = [m \in Mounts |-> IF v.mnt[m].ns = NULL THEN Unused ELSE v.mnt[m]]
  /\ ida' = v.ida
  /\ call' = what @@ [ret |-> v.ret, failed |-> v.ret = NULL, oops |-> v.oops]

\* dest and dentry as lock_mount() leaves them: nothing is mounted there.
MayMountAt(dest, dentry) ==
  /\ is_subdir(dentry, mnt[dest].root)
  /\ \A c \in ToSet(mnt[dest].mounts) : mnt[c].mountpoint # dentry

\* v holds the new tree v.ret; on failure it is unmounted again.
graft_tree(v, dest, dentry) ==
  With(attach_recursive_mnt(v, v.ret, dest, dentry, FALSE), LAMBDA w :
    IF w.ret = NULL THEN Fail(umount_tree(w, v.ret, FALSE)) ELSE w)

\* mount --bind and --rbind of dentry from in old.
do_loopback(dest, dentry, old, from, recurse) ==
  /\ MayMountAt(dest, dentry) /\ is_subdir(from, mnt[old].root)
  /\ ~mnt[old].unbindable /\ mnt[dest].ns = mnt[old].ns
  /\ Return(With(IF recurse THEN copy_tree(Now, old, from, {}) ELSE clone_mnt(Now, old, from, {}),
                 LAMBDA v : IF v.ret = NULL THEN v ELSE graft_tree(v, dest, dentry)),
            [op |-> "mount", dest |-> dest])
  /\ UNCHANGED root

\* mount of the file system itself; vfs_kern_mount() made the new mount, which a
\* failure leaves to mntput().
do_add_mount(dest, dentry) ==
  LET free == {m \in Mounts : mnt[m].root = NULL}
      new == Min(free)
  IN  /\ MayMountAt(dest, dentry) /\ dentry # mnt[dest].root
      /\ Return(IF free = {} THEN Fail(Now)
                ELSE attach_recursive_mnt([Now EXCEPT !.mnt[new] = alloc_vfsmnt(new, "/")],
                                          new, dest, dentry, FALSE),
                [op |-> "mount", dest |-> dest])
      /\ UNCHANGED root

\* mount --move
do_move_mount(dest, dentry, old) ==
  LET RECURSIVE above(_)
      above(p) == {p} \cup IF mnt[p].parent = p THEN {} ELSE above(mnt[p].parent)
  IN  /\ MayMountAt(dest, dentry) /\ mnt[dest].ns = mnt[old].ns
      /\ mnt[old].parent # old /\ ~mnt[mnt[old].parent].shared
      /\ mnt[dest].shared => \A m \in ToSet(tree_of(Now, old)) : ~mnt[m].unbindable
      /\ old \notin above(dest)
      /\ Return(attach_recursive_mnt(Now, old, dest, dentry, TRUE), [op |-> "mount", dest |-> dest])
      /\ UNCHANGED root

\* mount --make-shared, --make-rshared, and so on.
do_change_type(m, type, recurse) ==
  /\ \E list \in {IF recurse THEN tree_of(Now, m) ELSE <<m>>} :
       Return(With(IF type = "shared" THEN invent_group_ids(Now, list) ELSE Now, LAMBDA v :
                IF v.ret = NULL THEN v
                ELSE FoldLeft(LAMBDA w, p : change_mnt_propagation(w, p, type), v, list)),
              [op |-> "change", type |-> type, changed |-> ToSet(list)])
  /\ UNCHANGED root

\* umount, and with detach umount -l; the mounts in busy are in use.
do_umount(m, detach, busy) ==
  /\ Return(IF ~detach /\ propagate_mount_busy(Now, m, busy) THEN Fail(Now)
            ELSE IF mnt[m].parent = m THEN Oops(Now, "__propagate_umount")
            ELSE umount_tree(Now, m, TRUE),
            [op |-> "umount", top |-> m, busy |-> busy])
  /\ UNCHANGED root

\* (fault) The copies are peers of the originals in any case.
peer_flags(other_user) == {"COPY_ALL"}

\* How the mounts of a namespace are copied, for a user namespace of its own or not.
copy_flags(other_user) == {"COPY_ALL"} \cup IF other_user THEN {"SHARED_TO_SLAVE"} ELSE {}

\* The namespace `new', copied from n.
dup_mnt_ns(n, new, other_user) ==
  /\ root[n] # NULL /\ root[new] = NULL
  /\ Return(With(copy_tree(Now, root[n], mnt[root[n]].root, copy_flags(other_user)), LAMBDA w :
              IF w.ret = NULL THEN w
              ELSE With(ToSet(tree_of(w, w.ret)), LAMBDA tree :
                     [w EXCEPT !.mnt = [m \in tree |-> [w.mnt[m] EXCEPT !.ns = new]] @@ @])),
            [op |-> "dup", from |-> n, to |-> new, other_user |-> other_user])
  /\ root' = [root EXCEPT ![new] = call'.ret]

\* The last process has left the namespace.
put_mnt_ns(n) ==
  /\ n # InitNs /\ root[n] # NULL
  /\ Return(umount_tree(Now, root[n], FALSE), [op |-> "put", ns |-> n])
  /\ root' = [root EXCEPT ![n] = NULL]

init_mount_tree ==
  /\ mnt = [m \in Mounts |-> IF m = 1 THEN [alloc_vfsmnt(1, "/") EXCEPT !.ns = InitNs] ELSE Unused]
  /\ ida = {}
  /\ root = [n \in Namespaces |-> IF n = InitNs THEN 1 ELSE NULL]
  /\ call = [op |-> "boot", failed |-> FALSE, oops |-> "none"]

\* Whether a call is recursive makes no difference to a mount without children; nor
\* does MNT_DETACH, to one that is not in use.
Recurse(m) == IF mnt[m].mounts = <<>> THEN {FALSE} ELSE BOOLEAN

\* The mounts whose use can matter when m, which has no children, is unmounted.
MayGoWith(m) == {b \in Mounted : /\ mnt[m].mounts = <<>> /\ mnt[b].mounts = <<>>
                                 /\ mnt[b].mountpoint = mnt[m].mountpoint}

\* The root of a namespace is always in use: by its children and by the process that
\* has it as root or as working directory, without which no path leads to it.
InUse(m) == IF mnt[m].parent = m THEN {{m}} ELSE {{}} \cup {{b} : b \in MayGoWith(m)}

Loopback == \E dest, old \in Mounted, at, from \in Dentries : \E recurse \in Recurse(old) :
              do_loopback(dest, at, old, from, recurse)
AddMount == \E dest \in Mounted, at \in Dentries : do_add_mount(dest, at)
MoveMount == \E dest, old \in Mounted, at \in Dentries : do_move_mount(dest, at, old)
ChangeType == \E m \in Mounted, type \in {"shared", "slave", "private", "unbindable"} :
                \E recurse \in Recurse(m) : do_change_type(m, type, recurse)
Umount == \E m \in Mounted : \E busy \in InUse(m) : do_umount(m, FALSE, busy)
Detach == \E m \in {x \in Mounted : mnt[x].mounts # <<>> \/ mnt[x].parent = x} : do_umount(m, TRUE, {})
DupNs == \E n, new \in Namespaces, other_user \in BOOLEAN : dup_mnt_ns(n, new, other_user)
PutNs == \E n \in Namespaces : put_mnt_ns(n)

Next ==
  \/ Loopback \/ AddMount \/ MoveMount \/ ChangeType
  \/ Umount \/ Detach \/ DupNs \/ PutNs

Spec == init_mount_tree /\ [][Next]_vars
----------------------------------------------------------------------------
(* Properties.                                                             *)

TypeOK ==
  /\ mnt \in [Mounts ->
       [ns : Namespaces \cup {NULL}, parent : Mounts \cup {NULL},
        mountpoint : Dentries \cup {NULL}, root : Dentries \cup {NULL},
        shared : BOOLEAN, unbindable : BOOLEAN, group_id : Groups \cup {0},
        share : Mounts \cup {NULL}, master : Mounts \cup {NULL},
        slave_list : Seq(Mounts), mounts : Seq(Mounts)]]
  /\ ida \subseteq Groups
  /\ root \in [Namespaces -> Mounts \cup {NULL}]

\* The peer groups: the mounts linked by mnt_share are those with the same id, only
\* shared mounts have an id, and exactly the ids of mounts are allocated.  The id of
\* a group is given to its clones, invented before a mount is shared, and released
\* by whichever of the peers leaves last.
PeerGroups ==
  /\ \A m \in Mounted :
       /\ mnt[m].shared <=> mnt[m].group_id # 0
       /\ mnt[m].shared => ~mnt[m].unbindable
       /\ ToSet(peers_after(Now, m))
            = {x \in Mounted \ {m} : mnt[m].shared /\ mnt[x].group_id = mnt[m].group_id}
  /\ ida = {mnt[m].group_id : m \in Mounted} \ {0}

\* The slave lists: mnt_slave_list of a mount has the mounts whose mnt_master it is,
\* a master is a mounted shared mount, the masters above a mount end, and peer groups
\* are contiguous segments of slave lists, in the order of next_peer(), on which
\* get_source() relies.
SlaveLists ==
  \A m \in Mounted :
    LET list == mnt[m].slave_list
        RECURSIVE above(_, _)
        above(x, n) == x = NULL \/ (n > 0 /\ above(mnt[x].master, n - 1))
    IN  /\ ToSet(list) = {x \in Mounted : mnt[x].master = m}
        /\ Cardinality(ToSet(list)) = Len(list)
        /\ mnt[m].master # NULL => mnt[m].master \in Mounted /\ mnt[mnt[m].master].shared
        /\ above(m, Cardinality(Mounts))
        /\ \A i, j \in DOMAIN list :
             i < j /\ mnt[list[i]].shared /\ mnt[list[i]].group_id = mnt[list[j]].group_id
               => list[i + 1] = mnt[list[i]].share
        /\ \A x \in ToSet(peers_after(Now, m)) : mnt[x].master = mnt[m].master

\* The trees: the mounts of a namespace are the tree below its root, parents and
\* children agree, and a child is mounted inside what its parent shows.  Moving,
\* committing copies and unmounting each change only one of the two directions.  What
\* is in no namespace is free again.
MountTrees ==
  /\ \A m \in Mounts \ Mounted : mnt[m] = Unused
  /\ \A n \in Namespaces :
       {m \in Mounted : mnt[m].ns = n}
         = IF root[n] = NULL THEN {} ELSE ToSet(tree_of(Now, root[n]))
  /\ \A m \in Mounted :
       /\ mnt[m].parent = m <=> m \in {root[n] : n \in Namespaces}
       /\ ToSet(mnt[m].mounts) = {c \in Mounted \ {m} : mnt[c].parent = m}
       /\ mnt[m].parent # m => is_subdir(mnt[m].mountpoint, mnt[mnt[m].parent].root)

\* A call that fails, at whatever allocation, leaves all mounts, all lists in their
\* order and all ids as they were: copy_tree() and propagate_mnt() unmount what they
\* have copied and cleanup_group_ids() gives back what was invented.  No call follows a
\* NULL master in get_source().
FailureUndone ==
  [][call'.failed => call'.oops # "get_source" /\ UNCHANGED <<mnt, ida, root>>]_vars

\* What is unmounted with propagation has a parent other than itself: no call meets
\* BUG_ON(parent == mnt) of __propagate_umount().  do_umount() does not look whether
\* the mount is the root of its namespace.
UmountHasParent == [][call'.oops # "__propagate_umount"]_vars

Peers(f, a, b) == a = b \/ (f[a].shared /\ f[b].shared /\ f[a].group_id = f[b].group_id)

\* What happens to a is to be repeated in b: they are peers, or the master of b
\* receives from a.
RECURSIVE Receives(_, _, _)
Receives(f, b, a) ==
  Peers(f, a, b) \/ (f[b].master # NULL /\ Receives(f, f[b].master, a))

Receivers(f, a) == {b \in Mounts : f[b].ns # NULL /\ Receives(f, b, a)}

\* The trees of mounts that a call brings: the one asked for and its copies.
Heads == {call'.ret} \cup
         {c \in Mounts : mnt[c].ns = NULL /\ mnt'[c].ns # NULL /\ mnt[mnt'[c].parent].ns # NULL}

\* What is mounted on m, and below that, without the given heads.
RECURSIVE Contents(_, _)
Contents(m, heads) ==
  LET below == SelectSeq(mnt'[m].mounts, LAMBDA c : c \notin heads)
  IN  <<mnt'[m].root,
        [i \in DOMAIN below |-> <<mnt'[below[i]].mountpoint, Contents(below[i], heads)>>]>>

\* A mount reaches exactly the mounts that receive from its destination and show the
\* directory, once each and with all that is below it.  Its copies on peers are peers;
\* a copy on a slave is a slave of the copies of the nearest group above that has any,
\* even where the copies between were made only to be dropped.
Propagated ==
  [][call'.op = "mount" /\ ~call'.failed =>
       LET h == call'.ret
           p == call'.dest
           heads == Heads
           Over(c) == mnt'[c].parent
           dests == {m \in Receivers(mnt, p) : is_subdir(mnt'[h].mountpoint, mnt[m].root)}
           RECURSIVE nearest(_)
           nearest(m) == LET near == {c \in heads : Peers(mnt, Over(c), m)}
                         IN  IF near # {} THEN near ELSE nearest(mnt[m].master)
       IN  /\ {Over(c) : c \in heads} = dests /\ Cardinality(heads) = Cardinality(dests)
           /\ \A c \in heads :
                /\ mnt'[c].mountpoint = mnt'[h].mountpoint
                /\ Contents(c, heads) = Contents(h, heads)
                /\ mnt[Over(c)].shared => mnt'[c].shared
                /\ \A d \in heads : Peers(mnt', c, d) <=> Peers(mnt, Over(c), Over(d))
                /\ IF Peers(mnt, Over(c), p) THEN mnt'[c].master = mnt'[h].master
                   ELSE \A d \in nearest(mnt[Over(c)].master) : Peers(mnt', mnt'[c].master, d)]_vars

\* Unmounting takes the tree away, and with each of its mounts the last mount at the
\* same place wherever the parent propagates to, unless it has children; everything
\* else stays where it is.  Without MNT_DETACH nothing that goes is in use.
UnmountPropagated ==
  [][call'.op = "umount" /\ ~call'.failed =>
       LET tree == ToSet(tree_of(Now, call'.top))
           gone == Mounted \ {m \in Mounts : mnt'[m].ns # NULL}
           Places(x) == Receivers(mnt, mnt[x].parent) \ {mnt[x].parent}
           There(x, m) == SelectSeq(mnt[m].mounts, LAMBDA c :
                            c \notin tree /\ mnt[c].mountpoint = mnt[x].mountpoint)
       IN  /\ tree \subseteq gone /\ gone \cap call'.busy = {}
           /\ \A c \in gone \ tree :
                mnt[c].mounts = <<>> /\ \E x \in tree, m \in Mounted :
                                          m \in Places(x) /\ Contains(There(x, m), c)
           /\ \A x \in tree : \A m \in Places(x) :
                There(x, m) # <<>> /\ mnt[Last(There(x, m))].mounts = <<>>
                  => Last(There(x, m)) \in gone
           /\ \A m \in Mounted \ gone :
                /\ mnt'[m].parent = mnt[m].parent /\ mnt'[m].mountpoint = mnt[m].mountpoint
                /\ mnt'[m].root = mnt[m].root /\ mnt'[m].ns = mnt[m].ns]_vars

\* No call changes who receives from whom among the mounts it is not about: when a
\* mount in between is unmounted, made private or dropped, do_make_slave() hands its
\* slaves over to a peer or to its master.  A mount made a slave still receives but no
\* longer sends; one made private does neither.
StillReceives ==
  [][~call'.failed =>
     LET left == {m \in Mounted : mnt'[m].ns # NULL}
         changed == IF call'.op = "change" /\ call'.type # "shared"
                    THEN call'.changed ELSE {}
     IN  \A a, b \in left : a # b =>
           (Receives(mnt', b, a) <=>
              /\ Receives(mnt, b, a)
              /\ a \notin changed
              /\ b \in changed => call'.type = "slave")]_vars

\* A new namespace is a copy of the old one whose mounts receive what the originals
\* receive; they send what the originals send only within the same user namespace,
\* and a shared original always sends to its copy.
NamespaceCopied ==
  [][call'.op = "dup" /\ ~call'.failed =>
       LET olds == tree_of(Now, root[call'.from])
           news == tree_of([Now EXCEPT !.mnt = mnt'], root'[call'.to])
       IN  /\ Len(olds) = Len(news)
           /\ \A i \in DOMAIN olds :
                LET o == olds[i] c == news[i]
                IN  /\ mnt'[c].root = mnt[o].root /\ mnt'[c].unbindable = mnt[o].unbindable
                    /\ mnt'[c].mountpoint = mnt[o].mountpoint
                    /\ Receives(mnt', c, o) <=> mnt[o].shared
                    /\ Receives(mnt', o, c) <=> mnt[o].shared /\ ~call'.other_user
                    /\ \A a \in Mounted \ {o} :
                         /\ Receives(mnt', c, a) <=> Receives(mnt, o, a)
                         /\ Receives(mnt', a, c) <=> Receives(mnt, a, o) /\ ~call'.other_user]_vars

=============================================================================
