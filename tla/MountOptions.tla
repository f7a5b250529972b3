---------------------------- MODULE MountOptions ----------------------------
(***************************************************************************)
(* How NodePublishVolume turns a request into a running VFS: the mount     *)
(* flags, the mount group and the parameters become one map of options,    *)
(* createAndMountFilesystem applies it, and mountPoint.Mount starts a VFS  *)
(* before it mounts. Each mount has its own rclone config, but the cache   *)
(* and temporary directories are variables of the process: a VFS takes the *)
(* cache directory that is set when it starts.                             *)
(*                                                                         *)
(* Locks and config sections are the matter of NodeServer. Every VFS here  *)
(* has a cache mode other than off.                                        *)
(***************************************************************************)
EXTENDS Naturals, Sequences, FiniteSetsExt, Functions

CONSTANTS
    Calls,          \* publish calls
    Requests,       \* the requests a call may carry
    Normalize,      \* spelling of an option name -> rclone's name
    OptionInfo,     \* mountlib.OptionsInfo and vfscommon.OptionsInfo: defaults
    Methods,        \* mount types rclone knows
    Value,          \* values of options: directories, numbers, ...
    Absolute,       \* the absolute directories
    DefaultDir,     \* rclone's own cache and temporary directory
    None

GroupNames == {"gid", "uid", "allow_other"}

ASSUME OptionsAssumption ==
    /\ OptionInfo \in [DOMAIN OptionInfo -> Value]
    /\ {"true", DefaultDir} \subseteq Value
    /\ None \notin Value
    /\ None \notin [dir : Value \cup {""}, opt : [DOMAIN OptionInfo -> Value]]

ASSUME NamesAssumption ==
    /\ {"read-only"} \cup GroupNames \subseteq DOMAIN Normalize
    /\ Normalize["read-only"] = "read_only"
    /\ \A n \in GroupNames : Normalize[n] = n

ASSUME RequestsAssumption ==
    \A r \in Requests :
        /\ r.flags \in Seq([name : DOMAIN Normalize, value : Value \cup {None}])
        /\ r.readonly \in BOOLEAN /\ r.mount \in BOOLEAN /\ r.group \in Value \cup {None}
        /\ DOMAIN r.params \subseteq DOMAIN Normalize
        /\ r.params \in [DOMAIN r.params -> Value]

VARIABLES
    pc,         \* where the publish is
    req,        \* its request
    opts,       \* opts of createAndMountFilesystem
    vfs,        \* the VFS the publish started: cache directory and options
    running,    \* publishes whose VFS runs
    cacheDir,   \* config.cacheDir of the process
    tempDir     \* TMPDIR of the process

vars == <<pc, req, opts, vfs, running, cacheDir, tempDir>>

Goto(c, l) == pc' = [pc EXCEPT ![c] = l]

(* An error return of createAndMountFilesystem: cancel() and out.          *)
Fail(c) == Goto(c, "failed")
-----------------------------------------------------------------------------
(* Mutation: read-only goes in front of the flags of the capability.       *)
ReadOnlyFirst(r) ==
    IF ~r.mount THEN <<>>
    ELSE (IF r.readonly THEN <<[name |-> "read-only", value |-> None]>> ELSE <<>>) \o r.flags

MountFlags(r) ==
    IF ~r.mount THEN <<>>
    ELSE r.flags \o (IF r.readonly THEN <<[name |-> "read-only", value |-> None]>> ELSE <<>>)

mergeCopy(m1, m2) ==
    [k \in DOMAIN m1 \cup DOMAIN m2 |-> IF k \in DOMAIN m2 THEN m2[k] ELSE m1[k]]

GroupParams(r) ==
    IF r.mount /\ r.group # None
    THEN [gid |-> r.group, uid |-> r.group, allow_other |-> "true"]
    ELSE [k \in {} |-> None]

Params(r) == mergeCopy(r.params, GroupParams(r))

Spelled(names, k) == {n \in names : Normalize[n] = k}

(* Mutation: the parameters are copied as they are spelled.                *)
CopiesAsSpelled(params) == {params}

(* extractPublishParams copies the parameters under rclone's names, in the *)
(* order of a Go map: of two spellings of one name either may stay.        *)
Copies(params) ==
    LET keys == {Normalize[n] : n \in DOMAIN params} IN
    {[k \in keys |-> params[pick[k]]] :
        pick \in {f \in [keys -> DOMAIN params] :
                     \A k \in keys : f[k] \in Spelled(DOMAIN params, k)}}

(* extractVolumeMountOptions: a flag without a value is "true", the last   *)
(* of several flags with one name stays.                                   *)
VolumeMountOptions(flags) ==
    LET At(k)   == {i \in DOMAIN flags : Normalize[flags[i].name] = k}
        Last(k) == flags[Max(At(k))]
    IN  [k \in {Normalize[flags[i].name] : i \in DOMAIN flags} |->
            IF Last(k).value = None THEN "true" ELSE Last(k).value]

(* extractMountOptions and extractVFSOptions: the registered options with  *)
(* their defaults, overridden by opts.                                     *)
Extracted(o) ==
    [k \in DOMAIN OptionInfo |-> IF k \in DOMAIN o THEN o[k] ELSE OptionInfo[k]]
-----------------------------------------------------------------------------
Init ==
    /\ req \in [Calls -> Requests]
    /\ pc = [c \in Calls |-> "start"]
    /\ opts = [c \in Calls |-> None]
    /\ vfs = [c \in Calls |-> None]
    /\ running = {}
    /\ cacheDir = DefaultDir
    /\ tempDir = DefaultDir

(* The options of the request, up to mergeCopy(params, volumeMountOpts).   *)
MergeOptions(c) ==
    /\ pc[c] = "start"
    /\ \E p \in Copies(Params(req[c])) :
        opts' = [opts EXCEPT ![c] =
                    mergeCopy(p, VolumeMountOptions(MountFlags(req[c])))]
    /\ Goto(c, "cache")
    /\ UNCHANGED <<req, vfs, running, cacheDir, tempDir>>

(* Mutation: a publish that names no directory sets the default one again. *)
SetCacheDirOrDefault(c) ==
    /\ pc[c] = "cache"
    /\ cacheDir' = IF "cache_dir" \in DOMAIN opts[c] THEN opts[c].cache_dir ELSE DefaultDir
    /\ Goto(c, "temp")
    /\ UNCHANGED <<req, opts, vfs, running, tempDir>>

(* setRcloneConfigFlags: config.SetCacheDir, which assigns the result of   *)
(* filepath.Abs and so empties the directory when that fails.              *)
SetCacheDir(c) ==
    /\ pc[c] = "cache"
    /\ \/ /\ "cache_dir" \notin DOMAIN opts[c]
          /\ Goto(c, "temp") /\ UNCHANGED cacheDir
       \/ /\ "cache_dir" \in DOMAIN opts[c]
          /\ cacheDir' = opts[c].cache_dir
          /\ Goto(c, "temp")
       \/ /\ "cache_dir" \in DOMAIN opts[c] /\ opts[c].cache_dir \notin Absolute
          /\ cacheDir' = ""
          /\ Fail(c)
    /\ UNCHANGED <<req, opts, vfs, running, tempDir>>

(* setRcloneConfigFlags: config.SetTempDir.                                *)
SetTempDir(c) ==
    /\ pc[c] = "temp"
    /\ \/ /\ "temp_dir" \notin DOMAIN opts[c]
          /\ Goto(c, "config") /\ UNCHANGED tempDir
       \/ /\ "temp_dir" \in DOMAIN opts[c]
          /\ tempDir' = opts[c].temp_dir
          /\ Goto(c, "config")
       \/ /\ "temp_dir" \in DOMAIN opts[c]
          /\ Fail(c) /\ UNCHANGED tempDir
    /\ UNCHANGED <<req, opts, vfs, running, cacheDir>>

(* setRcloneConfigFlags: the options of the mount's own ConfigInfo, and    *)
(* fs.NewFs; either may fail.                                              *)
SetConfig(c) ==
    /\ pc[c] = "config"
    /\ Goto(c, "options") \/ Fail(c)
    /\ UNCHANGED <<req, opts, vfs, running, cacheDir, tempDir>>

(* extractMountOptions and extractVFSOptions refuse a value that is not of *)
(* the option's type; resolveMountMethod refuses an unknown mount type.    *)
ExtractOptions(c) ==
    /\ pc[c] = "options"
    /\ IF /\ \A k \in DOMAIN OptionInfo : Extracted(opts[c])[k] # "bad"
          /\ "mount_type" \in DOMAIN opts[c] => opts[c].mount_type \in Methods
       THEN Goto(c, "vfs")
       ELSE Fail(c)
    /\ UNCHANGED <<req, opts, vfs, running, cacheDir, tempDir>>

(* mountPoint.Mount: vfs.New comes first; its disk cache lies in the       *)
(* directory the process has set at that moment.                           *)
NewVFS(c) ==
    /\ pc[c] = "vfs"
    /\ vfs' = [vfs EXCEPT ![c] = [dir |-> cacheDir, opt |-> Extracted(opts[c])]]
    /\ running' = running \cup {c}
    /\ Goto(c, "mountfn")
    /\ UNCHANGED <<req, opts, cacheDir, tempDir>>

(* mountPoint.Mount: the mount itself. When it fails the caller cancels    *)
(* the context of the mount; the VFS has a context of its own.             *)
MountFn(c) ==
    /\ pc[c] = "mountfn"
    /\ Goto(c, "mounted") \/ Fail(c)
    /\ UNCHANGED <<req, opts, vfs, running, cacheDir, tempDir>>

(* unmountVolume: mountPoint.Unmount shuts the VFS down.                   *)
Unmount(c) ==
    /\ pc[c] = "mounted"
    /\ running' = running \ {c}
    /\ Goto(c, "unmounted")
    /\ UNCHANGED <<req, opts, vfs, cacheDir, tempDir>>

(* The process restarts with its defaults.                                 *)
Crash ==
    /\ pc' = [c \in Calls |-> IF pc[c] = "start" THEN "start" ELSE "lost"]
    /\ running' = {}
    /\ cacheDir' = DefaultDir /\ tempDir' = DefaultDir
    /\ UNCHANGED <<req, opts, vfs>>

Step(c) ==
    \/ MergeOptions(c) \/ SetCacheDir(c) \/ SetTempDir(c) \/ SetConfig(c)
    \/ ExtractOptions(c) \/ NewVFS(c) \/ MountFn(c) \/ Unmount(c)

Next == Crash \/ \E c \in Calls : Step(c)

Spec == Init /\ [][Next]_vars
-----------------------------------------------------------------------------
(* Properties.                                                             *)

(* Every variable holds a value of its kind.                               *)
TypeOK ==
    /\ pc \in [Calls -> {"start", "cache", "temp", "config", "options", "vfs",
                         "mountfn", "mounted", "failed", "unmounted", "lost"}]
    /\ req \in [Calls -> Requests]
    /\ DOMAIN opts = Calls
    /\ \A c \in Calls : \/ pc[c] = "start" /\ opts[c] = None
                        \/ /\ DOMAIN opts[c] \subseteq Range(Normalize)
                           /\ opts[c] \in [DOMAIN opts[c] -> Value]
    /\ vfs \in [Calls -> {None} \cup [dir : Value \cup {""}, opt : [DOMAIN OptionInfo -> Value]]]
    /\ running \subseteq {c \in Calls : vfs[c] # None}
    /\ {cacheDir, tempDir} \subseteq Value \cup {""}

(* What a request asks for an option, by default d.                        *)
Asked(r, k, d) ==
    LET flags == {i \in DOMAIN r.flags : r.mount /\ Normalize[r.flags[i].name] = k}
        last  == r.flags[Max(flags)].value
    IN  IF k = "read_only" /\ r.readonly /\ r.mount THEN {"true"}
        ELSE IF flags # {} THEN {IF last = None THEN "true" ELSE last}
        ELSE IF r.mount /\ r.group # None /\ k \in {"gid", "uid"} THEN {r.group}
        ELSE IF r.mount /\ r.group # None /\ k = "allow_other" THEN {"true"}
        ELSE IF Spelled(DOMAIN r.params, k) # {}
             THEN {r.params[n] : n \in Spelled(DOMAIN r.params, k)}
        ELSE {d}

(* A volume is mounted with the options its request asks for: a read-only  *)
(* publish is read-only whatever flags and parameters say, a mount flag    *)
(* wins over the fsGroup, that over a parameter, that over rclone's        *)
(* default (NodePublishVolume, mergeCopy, extractMountOptions,             *)
(* extractVFSOptions).                                                     *)
OptionsAsAsked ==
    \A c \in Calls : pc[c] = "mounted" =>
        \A k \in DOMAIN OptionInfo : vfs[c].opt[k] \in Asked(req[c], k, OptionInfo[k])

(* The directory a request names; a relative one may come out empty.       *)
MayName(r, dir) ==
    LET asked == Asked(r, "cache_dir", None) \ {None} IN
    dir \in asked \/ (dir = "" /\ ~(asked \subseteq Absolute))

(* The disk cache of a volume that names a directory lies in its own, or   *)
(* in the one another publish has named meanwhile, and is thereby never in *)
(* rclone's default directory, whatever publishes without a directory,     *)
(* failures and restarts come in between (setRcloneConfigFlags,            *)
(* config.SetCacheDir, mountPoint.Mount).                                  *)
CacheDirNamed ==
    \A c \in Calls : vfs[c] # None /\ None \notin Asked(req[c], "cache_dir", None) =>
        \E d \in Calls : pc[d] \notin {"start", "cache"} /\ MayName(req[d], vfs[c].dir)
=============================================================================
