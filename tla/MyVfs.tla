-------------------------------- MODULE MyVfs ---------------------------------
(***************************************************************************)
(* lab_vfs/my_vfs.c: a file system type, its mounts and the slab cache the *)
(* module fills and empties.  The kernel (external) keeps a module whose   *)
(* file system is mounted, and unloads one whose init returns an error     *)
(* without calling its exit.                                               *)
(***************************************************************************)
EXTENDS Naturals, FiniteSets

CONSTANTS Objects,    \* the elements of tmp[] that are filled (256 in the code)
          Mounts      \* mount points

VARIABLES
  module,      \* where myfs_init or myfs_exit is
  registered,  \* myfs_type is in the kernel's list
  area,        \* cache_mem_area is allocated
  cache,       \* "null", "created" or "destroyed"
  todo,        \* the objects the loop of init or exit has still to handle
  tmp,         \* the objects that are allocated
  mount        \* where each mount point is

vars == <<module, registered, area, cache, todo, tmp, mount>>

Init ==
  /\ module = "register" /\ registered = FALSE
  /\ area = FALSE /\ cache = "null"
  /\ todo = Objects /\ tmp = {}
  /\ mount = [m \in Mounts |-> "none"]

Goto(here, there) == module = here /\ module' = there
Pinned == \E m \in Mounts : mount[m] # "none"

-----------------------------------------------------------------------------
(* myfs_init.  Only the first error path leaves nothing behind.             *)

Register ==
  /\ \/ Goto("register", "kmalloc") /\ registered' = TRUE
     \/ Goto("register", "absent") /\ registered' = FALSE
  /\ UNCHANGED <<area, cache, todo, tmp, mount>>

Kmalloc ==
  /\ \/ Goto("kmalloc", "cache") /\ area' = TRUE
     \/ Goto("kmalloc", "failed") /\ area' = FALSE
  /\ UNCHANGED <<registered, cache, todo, tmp, mount>>

CreateCache ==
  /\ \/ Goto("cache", "fill") /\ cache' = "created" /\ area' = area
     \/ Goto("cache", "failed") /\ area' = FALSE /\ cache' = cache
  /\ UNCHANGED <<registered, todo, tmp, mount>>

(* The loop of kmem_cache_alloc goes on after a failure.                    *)
Alloc(o) ==
  /\ module = "fill" /\ o \in todo
  /\ todo' = todo \ {o}
  /\ tmp' \in {tmp, tmp \cup {o}}
  /\ UNCHANGED <<module, registered, area, cache, mount>>

Loaded ==
  /\ Goto("fill", "loaded") /\ todo = {}
  /\ todo' = Objects
  /\ UNCHANGED <<registered, area, cache, tmp, mount>>

(* -ENOMEM: the kernel frees the module.                                    *)
LoadFails ==
  /\ Goto("failed", "load_failed")
  /\ UNCHANGED <<registered, area, cache, todo, tmp, mount>>

-----------------------------------------------------------------------------
(* myfs_exit                                                                *)

Rmmod ==
  /\ Goto("loaded", "empty") /\ ~ Pinned
  /\ UNCHANGED <<registered, area, cache, todo, tmp, mount>>

(* kmem_cache_free of every element, of one that was never allocated too:   *)
(* that one is NULL, which the kernel does not survive.                     *)
Free(o) ==
  /\ module = "empty" /\ o \in todo
  /\ todo' = todo \ {o}
  /\ tmp' = tmp \ {o}
  /\ module' = IF o \in tmp THEN module ELSE "oops"
  /\ UNCHANGED <<registered, area, cache, mount>>

(* kmem_cache_destroy and kfree                                             *)
FaultyDestroy ==
  /\ Goto("empty", "unregister")
  /\ cache' = "destroyed" /\ area' = FALSE
  /\ UNCHANGED <<registered, todo, tmp, mount>>
Destroy ==
  /\ Goto("empty", "unregister") /\ todo = {}
  /\ cache' = "destroyed" /\ area' = FALSE
  /\ UNCHANGED <<registered, todo, tmp, mount>>

Unregister ==
  /\ Goto("unregister", "absent")
  /\ registered' = FALSE
  /\ UNCHANGED <<area, cache, todo, tmp, mount>>

Module == \/ Register \/ Kmalloc \/ CreateCache \/ Loaded \/ LoadFails \/ Rmmod
          \/ Destroy \/ Unregister \/ \E o \in Objects : Alloc(o) \/ Free(o)

-----------------------------------------------------------------------------
(* Mounts: get_fs_type takes a reference to a module that is not going      *)
(* away; myfs_init_fs_context, then myfs_get_tree with myfs_fill_sb; umount *)
(* calls myfs_kill_super.                                                   *)

Usable == registered /\ module \in {"kmalloc", "cache", "fill", "loaded"}

MountStart(m) ==
  /\ mount[m] = "none" /\ Usable
  /\ mount' = [mount EXCEPT ![m] = "context"]
  /\ UNCHANGED <<module, registered, area, cache, todo, tmp>>

(* new_inode or d_make_root fails, or the root is there.                    *)
FillSb(m) ==
  /\ mount[m] = "context"
  /\ \E s \in {"mounted", "none"} : mount' = [mount EXCEPT ![m] = s]
  /\ UNCHANGED <<module, registered, area, cache, todo, tmp>>

KillSuper(m) ==
  /\ mount[m] = "mounted"
  /\ mount' = [mount EXCEPT ![m] = "none"]
  /\ UNCHANGED <<module, registered, area, cache, todo, tmp>>

Mount(m) == MountStart(m) \/ FillSb(m) \/ KillSuper(m)

Next == Module \/ \E m \in Mounts : Mount(m)

-----------------------------------------------------------------------------
(* Properties.                                                              *)

TypeOK ==
  /\ module \in {"register", "kmalloc", "cache", "fill", "loaded", "empty", "unregister", "absent",
                 "failed", "load_failed", "oops"}
  /\ registered \in BOOLEAN /\ area \in BOOLEAN
  /\ cache \in {"null", "created", "destroyed"}
  /\ todo \subseteq Objects /\ tmp \subseteq Objects
  /\ mount \in [Mounts -> {"none", "context", "mounted"}]

(* rmmod leaves nothing behind: the cache is empty when it is destroyed,    *)
(* nothing is mounted from then on, and the type, the cache and the area    *)
(* are gone with the module.  Only a load that failed after                 *)
(* register_filesystem leaves the type in the kernel's list.                *)
CleanUnload ==
  /\ cache = "destroyed" => tmp = {} /\ ~ Pinned
  /\ module = "absent" => ~ registered /\ ~ area /\ cache # "created" /\ ~ Pinned
  /\ module = "load_failed" => registered /\ ~ area /\ cache = "null"
=============================================================================
