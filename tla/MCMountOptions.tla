--------------------------- MODULE MCMountOptions ---------------------------
(* Small instances of MountOptions for TLC.                                *)
EXTENDS MountOptions

Flag(n, v) == [name |-> n, value |-> v]

MCNormalize == [n \in {"read-only", "READ_ONLY", "--gid", "gid", "uid", "allow_other",
                       "vfs-cache-mode", "cache_dir", "Cache-Dir", "temp_dir",
                       "mount_type"} |->
    CASE n \in {"read-only", "READ_ONLY"} -> "read_only"
      [] n \in {"--gid", "gid"} -> "gid"
      [] n = "vfs-cache-mode" -> "vfs_cache_mode"
      [] n \in {"cache_dir", "Cache-Dir"} -> "cache_dir"
      [] OTHER -> n]

MCOptionInfo == [read_only |-> "false", gid |-> "0", uid |-> "0",
                 allow_other |-> "false", vfs_cache_mode |-> "off"]

Request(flags, readonly, mount, group, params) ==
    [flags |-> flags, readonly |-> readonly, mount |-> mount,
     group |-> group, params |-> params]

(* A publish without a directory of its own, refused for a bad value.      *)
Bad == Request(<<>>, FALSE, TRUE, None, [uid |-> "bad"])

(* A publish whose directory may not be resolved.                          *)
Relative == Request(<<>>, FALSE, TRUE, None, [cache_dir |-> "rel"])

(* Volumes that name directories of their own, as a parameter or as a      *)
(* mount flag.                                                             *)
OwnDir == {Request(<<>>, FALSE, TRUE, None, [cache_dir |-> "/cache"]),
           Request(<<Flag("Cache-Dir", "/other")>>, FALSE, TRUE, None,
                   [cache_dir |-> "/elsewhere", temp_dir |-> "/tmp/v"])}

(* Flags that contradict the request and each other, a group with and      *)
(* without flags against it, parameters spelled in two ways, bad values,   *)
(* known and unknown mount types.                                          *)
Contested ==
    {Request(f, ro, m, g, p) :
        f \in {<<>>, <<Flag("read-only", "false"), Flag("--gid", "5")>>,
               <<Flag("READ_ONLY", None), Flag("read-only", "false")>>},
        ro \in BOOLEAN, m \in BOOLEAN, g \in {None, "1000"},
        p \in {[gid |-> "7", temp_dir |-> "/tmp/v"],
               [n \in {"READ_ONLY", "read-only", "cache_dir"} |->
                    CASE n = "READ_ONLY" -> "true"
                      [] n = "read-only" -> "false"
                      [] n = "cache_dir" -> "/cache"]}}
    \cup {Request(<<>>, FALSE, TRUE, None, p) :
        p \in {[uid |-> "bad", cache_dir |-> "/cache"],
               [mount_type |-> "nfs"], [mount_type |-> "mount2"]}}

MCRequests == Contested \cup OwnDir \cup {Relative, Bad}

(* Two publishes meet only in the directories of the process: one is any   *)
(* publish, the other one sets a directory, fails to, or sets none.        *)
MCInit == Init /\ \E c \in Calls : req[c] \in OwnDir \cup {Relative, Bad}

MCSpec == MCInit /\ [][Next]_vars
=============================================================================
