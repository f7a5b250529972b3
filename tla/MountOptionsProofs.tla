------------------------- MODULE MountOptionsProofs -------------------------
(***************************************************************************)
(* Proofs about MountOptions, for any number of calls and any requests.    *)
(***************************************************************************)
EXTENDS MountOptions, FiniteSetTheorems, TLAPS

(* A bounded set of natural numbers has a largest element.                 *)
LEMMA LargestNumber ==
  ASSUME NEW T \in SUBSET Nat, T # {}, NEW b \in Nat, \A n \in T : n <= b
  PROVE  Max(T) \in T /\ \A n \in T : n <= Max(T)
<1> DEFINE up == {n \in Nat : \A m \in T : m <= n}
<1>1. PICK n \in up : \A m \in up : ~(<<m, n>> \in OpToRel(<, Nat))
  <2>1. up \in SUBSET Nat /\ up # {}
    OBVIOUS
  <2> HIDE DEF up
  <2>. QED
    BY <2>1, NatLessThanWellFounded, WFMin, Zenon
<1>2. \A m \in up : ~(m < n)
  BY <1>1 DEF OpToRel
<1>3. n \in T
  <2>1. ASSUME n \notin T PROVE FALSE
    <3>0. PICK x \in T : TRUE
      OBVIOUS
    <3>1. n # 0
      BY <2>1, <3>0
    <3>2. n - 1 \in up
      BY <2>1, <3>1
    <3>. QED
      BY <1>2, <3>2
  <2>. QED
    BY <2>1
<1>4. \E x \in T : \A y \in T : x >= y
  BY <1>3
<1>5. Max(T) \in T /\ \A y \in T : Max(T) >= y
  BY <1>4 DEF Max
<1>. QED
  BY <1>5
-----------------------------------------------------------------------------
(* The options a request comes to.                                         *)

Flag == [name : DOMAIN Normalize, value : Value \cup {None}]
ReadOnlyFlag == [name |-> "read-only", value |-> None]

(* The flags of a name.                                                    *)
At(flags, k) == {i \in DOMAIN flags : Normalize[flags[i].name] = k}

FlagValue(f) == IF f.value = None THEN "true" ELSE f.value

(* The last flag of a name decides.                                        *)
LEMMA LastFlag ==
  ASSUME NEW flags \in Seq(Flag), NEW k
  PROVE  /\ k \in DOMAIN VolumeMountOptions(flags) <=> At(flags, k) # {}
         /\ At(flags, k) # {} =>
              /\ Max(At(flags, k)) \in At(flags, k)
              /\ \A i \in At(flags, k) : i <= Max(At(flags, k))
              /\ VolumeMountOptions(flags)[k] = FlagValue(flags[Max(At(flags, k))])
<1>1. /\ k \in DOMAIN VolumeMountOptions(flags) <=> At(flags, k) # {}
      /\ At(flags, k) # {} =>
            VolumeMountOptions(flags)[k] = FlagValue(flags[Max(At(flags, k))])
  BY DEF VolumeMountOptions, At, FlagValue
<1>2. /\ At(flags, k) \in SUBSET Nat /\ Len(flags) \in Nat
      /\ \A n \in At(flags, k) : n <= Len(flags)
  BY DEF At
<1>. QED
  BY <1>1, <1>2, LargestNumber

LEMMA MountFlagsType ==
  ASSUME NEW r \in Requests
  PROVE  MountFlags(r) \in Seq(Flag) /\ r.flags \in Seq(Flag)
<1>1. r.flags \in Seq(Flag) /\ r.mount \in BOOLEAN /\ r.readonly \in BOOLEAN
  BY RequestsAssumption DEF Flag
<1>2. ReadOnlyFlag \in Flag
  BY NamesAssumption DEF Flag, ReadOnlyFlag
<1>3. <<ReadOnlyFlag>> \in Seq(Flag) /\ <<>> \in Seq(Flag)
  BY <1>2
<1>4. r.flags \o <<ReadOnlyFlag>> \in Seq(Flag) /\ r.flags \o <<>> \in Seq(Flag)
  BY <1>1, <1>3
<1>. QED
  BY <1>1, <1>3, <1>4 DEF MountFlags, ReadOnlyFlag

(* The flags without and with the one a read-only publish adds.            *)
LEMMA FlagsOf ==
  ASSUME NEW r \in Requests, NEW k
  PROVE  /\ ~r.mount => At(MountFlags(r), k) = {}
         /\ r.mount /\ ~(r.readonly /\ k = "read_only") =>
              /\ At(MountFlags(r), k) = At(r.flags, k)
              /\ \A i \in At(r.flags, k) : MountFlags(r)[i] = r.flags[i]
         /\ r.mount /\ r.readonly /\ k = "read_only" =>
              /\ Len(r.flags) + 1 \in At(MountFlags(r), k)
              /\ MountFlags(r)[Len(r.flags) + 1] = ReadOnlyFlag
              /\ \A i \in At(MountFlags(r), k) : i <= Len(r.flags) + 1
<1>0. r.flags \in Seq(Flag) /\ r.mount \in BOOLEAN /\ r.readonly \in BOOLEAN
  BY RequestsAssumption DEF Flag
<1>1. CASE ~r.mount
  BY <1>1 DEF MountFlags, At
<1>2. CASE r.mount /\ ~r.readonly
  <2>1. MountFlags(r) = r.flags
    BY <1>0, <1>2 DEF MountFlags
  <2>. QED
    BY <1>2, <2>1
<1>3. CASE r.mount /\ r.readonly
  <2> DEFINE m == r.flags \o <<ReadOnlyFlag>>
  <2>1. MountFlags(r) = m
    BY <1>3 DEF MountFlags, ReadOnlyFlag
  <2>2. /\ DOMAIN m = 1 .. Len(r.flags) + 1 /\ Len(r.flags) \in Nat
        /\ \A i \in 1 .. Len(r.flags) : m[i] = r.flags[i]
        /\ m[Len(r.flags) + 1] = ReadOnlyFlag
        /\ DOMAIN r.flags = 1 .. Len(r.flags)
    BY <1>0
  <2> HIDE DEF m
  <2>3. Normalize[ReadOnlyFlag.name] = "read_only"
    BY NamesAssumption DEF ReadOnlyFlag
  <2>4. \A i \in DOMAIN m : i \in DOMAIN r.flags \/ i = Len(r.flags) + 1
    BY <2>2
  <2>. QED
    BY <1>3, <2>1, <2>2, <2>3, <2>4 DEF At
<1>. QED
  BY <1>0, <1>1, <1>2, <1>3

(* The parameters and the group, under the names they are spelled with.    *)
LEMMA ParamsOf ==
  ASSUME NEW r \in Requests
  PROVE  /\ DOMAIN Params(r) = DOMAIN r.params
                \cup (IF r.mount /\ r.group # None THEN GroupNames ELSE {})
         /\ DOMAIN Params(r) \subseteq DOMAIN Normalize
         /\ \A n \in DOMAIN Params(r) : Params(r)[n] =
                IF r.mount /\ r.group # None /\ n \in {"gid", "uid"} THEN r.group
                ELSE IF r.mount /\ r.group # None /\ n = "allow_other" THEN "true"
                ELSE r.params[n]
         /\ \A n \in DOMAIN Params(r) : Params(r)[n] \in Value
<1>0. /\ r.mount \in BOOLEAN /\ r.group \in Value \cup {None}
      /\ DOMAIN r.params \subseteq DOMAIN Normalize /\ r.params \in [DOMAIN r.params -> Value]
      /\ GroupNames \subseteq DOMAIN Normalize /\ "true" \in Value
  BY RequestsAssumption, NamesAssumption, OptionsAssumption
<1> DEFINE g == GroupParams(r)
<1>1. CASE r.mount /\ r.group # None
  <2>1. /\ DOMAIN g = GroupNames /\ g["gid"] = r.group /\ g["uid"] = r.group
        /\ g["allow_other"] = "true"
    BY <1>1 DEF GroupParams, GroupNames
  <2> HIDE DEF g
  <2>2. Params(r) = mergeCopy(r.params, g)
    BY DEF Params, g
  <2>3. /\ DOMAIN Params(r) = DOMAIN r.params \cup GroupNames
        /\ \A n \in DOMAIN Params(r) :
             Params(r)[n] = IF n \in GroupNames THEN g[n] ELSE r.params[n]
    BY <2>1, <2>2 DEF mergeCopy
  <2>. QED
    BY <1>0, <1>1, <2>1, <2>3 DEF GroupNames
<1>2. CASE ~(r.mount /\ r.group # None)
  <2>1. DOMAIN g = {}
    BY <1>0, <1>2 DEF GroupParams
  <2> HIDE DEF g
  <2>2. Params(r) = mergeCopy(r.params, g)
    BY DEF Params, g
  <2>3. /\ DOMAIN Params(r) = DOMAIN r.params
        /\ \A n \in DOMAIN Params(r) : Params(r)[n] = r.params[n]
    BY <2>1, <2>2 DEF mergeCopy
  <2>. QED
    BY <1>0, <1>2, <2>3
<1>. QED
  BY <1>1, <1>2

(* p[k] is a parameter whose name is a spelling of k.                      *)
CopyOf(params, p, k) == \E n \in Spelled(DOMAIN params, k) : p[k] = params[n]

(* A copied parameter is one of those spelled like it.                     *)
LEMMA Copied ==
  ASSUME NEW params, NEW p \in Copies(params), NEW k
  PROVE  /\ DOMAIN p = {Normalize[n] : n \in DOMAIN params}
         /\ k \in DOMAIN p <=> Spelled(DOMAIN params, k) # {}
         /\ k \in DOMAIN p => CopyOf(params, p, k)
<1> DEFINE keys == {Normalize[n] : n \in DOMAIN params}
<1>1. PICK pick \in [keys -> DOMAIN params] :
          /\ \A j \in keys : pick[j] \in Spelled(DOMAIN params, j)
          /\ p = [j \in keys |-> params[pick[j]]]
  BY DEF Copies
<1>2. DOMAIN p = keys
  BY <1>1
<1>3. k \in keys <=> Spelled(DOMAIN params, k) # {}
  BY DEF Spelled
<1>4. k \in keys => p[k] = params[pick[k]] /\ pick[k] \in Spelled(DOMAIN params, k)
  BY <1>1
<1>. QED
  BY <1>2, <1>3, <1>4 DEF CopyOf

(* The options of a request, for one order of its parameters.              *)
Merged(r, p) == mergeCopy(p, VolumeMountOptions(MountFlags(r)))

LEMMA MergedOf ==
  ASSUME NEW r \in Requests, NEW p, NEW k
  PROVE  /\ k \in DOMAIN Merged(r, p) <=> At(MountFlags(r), k) # {} \/ k \in DOMAIN p
         /\ At(MountFlags(r), k) # {} =>
              Merged(r, p)[k] = FlagValue(MountFlags(r)[Max(At(MountFlags(r), k))])
         /\ At(MountFlags(r), k) = {} /\ k \in DOMAIN p => Merged(r, p)[k] = p[k]
<1>1. MountFlags(r) \in Seq(Flag)
  BY MountFlagsType
<1>2. /\ k \in DOMAIN VolumeMountOptions(MountFlags(r)) <=> At(MountFlags(r), k) # {}
      /\ At(MountFlags(r), k) # {} =>
          VolumeMountOptions(MountFlags(r))[k] = FlagValue(MountFlags(r)[Max(At(MountFlags(r), k))])
  BY <1>1, LastFlag
<1>. QED
  BY <1>2 DEF Merged, mergeCopy

LEMMA MergedType ==
  ASSUME NEW r \in Requests, NEW p \in Copies(Params(r))
  PROVE  /\ DOMAIN Merged(r, p) \subseteq Range(Normalize)
         /\ Merged(r, p) \in [DOMAIN Merged(r, p) -> Value]
<1>1. ASSUME NEW k \in DOMAIN Merged(r, p)
      PROVE  k \in Range(Normalize) /\ Merged(r, p)[k] \in Value
  <2>1. CASE At(MountFlags(r), k) # {}
    <3> DEFINE i == Max(At(MountFlags(r), k))
    <3>1. MountFlags(r) \in Seq(Flag)
      BY MountFlagsType
    <3>2. i \in At(MountFlags(r), k)
      BY <2>1, <3>1, LastFlag
    <3> HIDE DEF i
    <3>3. i \in DOMAIN MountFlags(r) /\ Normalize[MountFlags(r)[i].name] = k
      BY <3>2 DEF At
    <3>4. MountFlags(r)[i] \in Flag
      BY <3>1, <3>3
    <3>5. FlagValue(MountFlags(r)[i]) \in Value /\ MountFlags(r)[i].name \in DOMAIN Normalize
      BY <3>4, OptionsAssumption DEF FlagValue, Flag
    <3>6. Merged(r, p)[k] = FlagValue(MountFlags(r)[i])
      BY <2>1, MergedOf DEF i
    <3>. QED
      BY <3>3, <3>5, <3>6 DEF Range
  <2>2. CASE At(MountFlags(r), k) = {}
    <3>1. k \in DOMAIN p /\ Merged(r, p)[k] = p[k]
      BY <2>2, MergedOf
    <3>0. CopyOf(Params(r), p, k)
      BY <3>1, Copied
    <3>2. PICK n \in Spelled(DOMAIN Params(r), k) : p[k] = Params(r)[n]
      BY <3>0 DEF CopyOf
    <3>3. n \in DOMAIN Params(r) /\ Normalize[n] = k
      BY DEF Spelled
    <3>. QED
      BY <3>1, <3>2, <3>3, ParamsOf DEF Range
  <2>. QED
    BY <2>1, <2>2
<1>2. Merged(r, p) = [k \in DOMAIN Merged(r, p) |-> Merged(r, p)[k]]
  BY DEF Merged, mergeCopy
<1>. QED
  BY <1>1, <1>2

(* A request with a group spells its parameters of the group's names as    *)
(* the driver does.                                                        *)
GroupSpelled(r) ==
    r.mount /\ r.group # None =>
        \A n \in DOMAIN r.params : Normalize[n] \in GroupNames => n \in GroupNames

(* Whatever the order of the parameters, an option has a value the request *)
(* asks for.                                                               *)
LEMMA AsAsked ==
  ASSUME NEW r \in Requests, NEW p \in Copies(Params(r)), NEW k, NEW d,
         k \in GroupNames => GroupSpelled(r)
  PROVE  (IF k \in DOMAIN Merged(r, p) THEN Merged(r, p)[k] ELSE d) \in Asked(r, k, d)
<1> DEFINE o == Merged(r, p)
           flags == At(r.flags, k)
           asked == Asked(r, k, d)
<1>0. /\ r.mount \in BOOLEAN /\ r.readonly \in BOOLEAN /\ r.flags \in Seq(Flag)
      /\ MountFlags(r) \in Seq(Flag)
  BY RequestsAssumption, MountFlagsType DEF Flag
<1>1. CASE r.mount /\ r.readonly /\ k = "read_only"
  <2> DEFINE i == Max(At(MountFlags(r), k))
  <2>1. /\ Len(r.flags) + 1 \in At(MountFlags(r), k)
        /\ MountFlags(r)[Len(r.flags) + 1] = ReadOnlyFlag
        /\ \A j \in At(MountFlags(r), k) : j <= Len(r.flags) + 1
    BY <1>1, FlagsOf
  <2>2. i \in At(MountFlags(r), k) /\ \A j \in At(MountFlags(r), k) : j <= i
    BY <1>0, <2>1, LastFlag
  <2>3. At(MountFlags(r), k) \subseteq Nat /\ Len(r.flags) \in Nat
    BY <1>0 DEF At
  <2>4. i = Len(r.flags) + 1
    <3> HIDE DEF i
    <3>. QED
      BY <2>1, <2>2, <2>3
  <2>5. k \in DOMAIN o /\ o[k] = FlagValue(MountFlags(r)[i])
    BY <2>1, MergedOf
  <2>6. FlagValue(ReadOnlyFlag) = "true"
    BY DEF FlagValue, ReadOnlyFlag
  <2>7. asked = {"true"}
    BY <1>1 DEF Asked
  <2>. QED
    BY <2>1, <2>4, <2>5, <2>6, <2>7
<1>2. CASE ~(r.mount /\ r.readonly /\ k = "read_only")
  <2>1. CASE r.mount /\ flags # {}
    <3>1. At(MountFlags(r), k) = flags /\ \A i \in flags : MountFlags(r)[i] = r.flags[i]
      BY <1>2, <2>1, FlagsOf
    <3>2. Max(flags) \in flags
      BY <1>0, <2>1, LastFlag
    <3>3. k \in DOMAIN o /\ o[k] = FlagValue(r.flags[Max(flags)])
      BY <2>1, <3>1, <3>2, MergedOf
    <3>4. flags = {i \in DOMAIN r.flags : r.mount /\ Normalize[r.flags[i].name] = k}
      BY <2>1 DEF At
    <3> HIDE DEF flags
    <3>5. asked = {FlagValue(r.flags[Max(flags)])}
      BY <1>2, <2>1, <3>4 DEF Asked, FlagValue
    <3>. QED
      BY <3>3, <3>5
  <2>2. CASE ~(r.mount /\ flags # {})
    <3>1. At(MountFlags(r), k) = {}
      BY <1>0, <1>2, <2>2, FlagsOf
    <3>2. {i \in DOMAIN r.flags : r.mount /\ Normalize[r.flags[i].name] = k} = {}
      BY <2>2 DEF At
    <3> DEFINE group == r.mount /\ r.group # None
    <3>3. asked = IF group /\ k \in {"gid", "uid"} THEN {r.group}
                  ELSE IF group /\ k = "allow_other" THEN {"true"}
                  ELSE IF Spelled(DOMAIN r.params, k) # {}
                       THEN {r.params[n] : n \in Spelled(DOMAIN r.params, k)}
                  ELSE {d}
      BY <1>2, <3>2 DEF Asked
    <3>4. k \in DOMAIN o <=> k \in DOMAIN p
      BY <3>1, MergedOf
    <3>5. k \in DOMAIN p => o[k] = p[k]
      BY <3>1, MergedOf
    <3>6. k \in DOMAIN p <=> Spelled(DOMAIN Params(r), k) # {}
      BY Copied
    <3>7. k \in DOMAIN p => \E n \in Spelled(DOMAIN Params(r), k) : p[k] = Params(r)[n]
      <4>1. k \in DOMAIN p => CopyOf(Params(r), p, k)
        BY Copied
      <4>. QED
        BY <4>1 DEF CopyOf
    <3> SUFFICES (IF k \in DOMAIN o THEN o[k] ELSE d) \in asked
      OBVIOUS
    <3> HIDE DEF o, asked
    <3>8. CASE group /\ k \in GroupNames
      <4>1. k \in Spelled(DOMAIN Params(r), k)
        BY <3>8, ParamsOf, NamesAssumption DEF Spelled
      <4>2. \A n \in Spelled(DOMAIN Params(r), k) : n = k
        <5>1. ASSUME NEW n \in Spelled(DOMAIN Params(r), k) PROVE n = k
          <6>1. n \in DOMAIN Params(r) /\ Normalize[n] = k
            BY DEF Spelled
          <6>2. n \in GroupNames
            BY <3>8, <6>1, ParamsOf DEF GroupSpelled
          <6>. QED
            BY <6>1, <6>2, NamesAssumption
        <5>. QED
          BY <5>1
      <4>3. o[k] = Params(r)[k] /\ k \in DOMAIN o
        BY <3>4, <3>5, <3>6, <3>7, <4>1, <4>2
      <4>4. k \in DOMAIN Params(r)
        BY <4>1 DEF Spelled
      <4>5. Params(r)[k] = IF k \in {"gid", "uid"} THEN r.group ELSE "true"
        BY <3>8, <4>4, ParamsOf DEF GroupNames
      <4>. QED
        BY <3>3, <3>8, <4>3, <4>5 DEF GroupNames
    <3>9. CASE ~(group /\ k \in GroupNames)
      <4>1. asked = IF Spelled(DOMAIN r.params, k) # {}
                    THEN {r.params[n] : n \in Spelled(DOMAIN r.params, k)} ELSE {d}
        BY <3>3, <3>9 DEF GroupNames
      <4>2. ASSUME NEW n \in Spelled(DOMAIN Params(r), k)
            PROVE  n \in Spelled(DOMAIN r.params, k) /\ Params(r)[n] = r.params[n]
        <5>1. n \in DOMAIN Params(r) /\ Normalize[n] = k
          BY DEF Spelled
        <5>2. ~(group /\ n \in GroupNames)
          BY <3>9, <5>1, NamesAssumption
        <5>3. n \in DOMAIN r.params
          BY <5>1, <5>2, ParamsOf
        <5>4. Params(r)[n] = r.params[n]
          BY <5>1, <5>2, ParamsOf DEF GroupNames
        <5>. QED
          BY <5>1, <5>3, <5>4 DEF Spelled
      <4>3. Spelled(DOMAIN r.params, k) # {} => Spelled(DOMAIN Params(r), k) # {}
        BY ParamsOf DEF Spelled
      <4>. QED
        BY <3>4, <3>5, <3>6, <3>7, <4>1, <4>2, <4>3
    <3>. QED
      BY <3>8, <3>9
  <2>. QED
    BY <2>1, <2>2
<1>. QED
  BY <1>1, <1>2
-----------------------------------------------------------------------------
(* The inductive invariant.                                                *)

(* The options of a publish are those of its request, for some order of    *)
(* its parameters.                                                         *)
OptsFrom(c) ==
    pc[c] # "start" => \E p \in Copies(Params(req[c])) : opts[c] = Merged(req[c], p)

(* A VFS runs with the options of its publish, and a mount has a VFS.      *)
VfsFrom(c) ==
    /\ vfs[c] # None => pc[c] # "start" /\ vfs[c].opt = Extracted(opts[c])
    /\ pc[c] \in {"mountfn", "mounted"} => vfs[c] # None

OptionsInv ==
    /\ TypeOK
    /\ \A c \in Calls : OptsFrom(c) /\ VfsFrom(c)

Dirs == Value \cup {""}
Labels == {"start", "cache", "temp", "config", "options", "vfs",
           "mountfn", "mounted", "failed", "unmounted", "lost"}

LEMMA ExtractedType ==
  ASSUME NEW o, o \in [DOMAIN o -> Value]
  PROVE  Extracted(o) \in [DOMAIN OptionInfo -> Value]
<1>1. \A k \in DOMAIN o : o[k] \in Value
  OBVIOUS
<1>2. \A k \in DOMAIN OptionInfo : OptionInfo[k] \in Value
  BY OptionsAssumption
<1>. QED
  BY <1>1, <1>2 DEF Extracted

LEMMA OptionsInit == Init => OptionsInv
<1> SUFFICES ASSUME Init PROVE OptionsInv
  OBVIOUS
<1>1. TypeOK
  BY OptionsAssumption DEF Init, TypeOK
<1>2. ASSUME NEW c \in Calls PROVE OptsFrom(c) /\ VfsFrom(c)
  BY DEF Init, OptsFrom, VfsFrom
<1>. QED
  BY <1>1, <1>2 DEF OptionsInv

(* The steps of a publish that only move it on.                            *)
LEMMA Moved ==
  ASSUME OptionsInv, NEW c \in Calls, NEW l \in Labels \ {"start"}, Goto(c, l),
         pc[c] # "start", l \in {"mountfn", "mounted"} => vfs[c] # None,
         UNCHANGED <<req, opts, vfs>>, running' \subseteq running,
         cacheDir' \in Dirs, tempDir' \in Dirs
  PROVE  OptionsInv'
<1>0. /\ pc \in [Calls -> Labels] /\ pc' = [pc EXCEPT ![c] = l]
      /\ UNCHANGED req /\ UNCHANGED opts /\ UNCHANGED vfs
  BY DEF OptionsInv, TypeOK, Labels, Goto
<1>1. /\ pc' \in [Calls -> Labels]
      /\ \A d \in Calls : pc'[d] = IF d = c THEN l ELSE pc[d]
  BY <1>0
<1>2. \A d \in Calls : pc'[d] = "start" <=> pc[d] = "start"
  BY <1>1
<1>3. TypeOK'
  <2>1. (\A d \in Calls : \/ pc[d] = "start" /\ opts[d] = None
                          \/ /\ DOMAIN opts[d] \subseteq Range(Normalize)
                             /\ opts[d] \in [DOMAIN opts[d] -> Value])'
    BY <1>0, <1>2 DEF OptionsInv, TypeOK
  <2>2. (running \subseteq {d \in Calls : vfs[d] # None})'
    BY <1>0 DEF OptionsInv, TypeOK
  <2>. QED
    BY <1>0, <1>1, <2>1, <2>2 DEF OptionsInv, TypeOK, Labels, Dirs
<1>4. ASSUME NEW d \in Calls PROVE OptsFrom(d)' /\ VfsFrom(d)'
  <2>1. OptsFrom(d) /\ VfsFrom(d)
    BY DEF OptionsInv
  <2>2. OptsFrom(d)'
    BY <1>0, <1>2, <2>1 DEF OptsFrom
  <2>3. VfsFrom(d)'
    BY <1>0, <1>1, <1>2, <2>1 DEF VfsFrom
  <2>. QED
    BY <2>2, <2>3
<1>. QED
  BY <1>3, <1>4 DEF OptionsInv

LEMMA StepMergeOptions ==
  ASSUME OptionsInv, NEW c \in Calls, MergeOptions(c)
  PROVE  OptionsInv'
<1>1. PICK p \in Copies(Params(req[c])) : opts' = [opts EXCEPT ![c] = Merged(req[c], p)]
  BY DEF MergeOptions, Merged
<1>2. /\ pc[c] = "start" /\ pc' = [pc EXCEPT ![c] = "cache"]
      /\ UNCHANGED req /\ UNCHANGED vfs /\ UNCHANGED <<running, cacheDir, tempDir>>
      /\ pc \in [Calls -> Labels] /\ req[c] \in Requests /\ DOMAIN opts = Calls
      /\ vfs[c] = None
  BY DEF MergeOptions, Goto, OptionsInv, TypeOK, Labels, VfsFrom
<1> DEFINE m == Merged(req[c], p)
<1>3. DOMAIN m \subseteq Range(Normalize) /\ m \in [DOMAIN m -> Value]
  BY <1>2, MergedType
<1>4. opts' = [opts EXCEPT ![c] = m]
  BY <1>1
<1>5. m = Merged(req[c], p)
  OBVIOUS
<1> HIDE DEF m
<1>6. /\ DOMAIN opts' = Calls /\ opts'[c] = m
      /\ \A d \in Calls : d # c => opts'[d] = opts[d] /\ pc'[d] = pc[d]
      /\ pc' \in [Calls -> Labels] /\ pc'[c] = "cache"
  BY <1>2, <1>4 DEF Labels
<1>7. TypeOK'
  BY <1>2, <1>3, <1>6 DEF OptionsInv, TypeOK, Labels
<1>8. ASSUME NEW d \in Calls PROVE OptsFrom(d)' /\ VfsFrom(d)'
  <2>1. OptsFrom(d) /\ VfsFrom(d)
    BY DEF OptionsInv
  <2>2. OptsFrom(d)'
    <3>1. CASE d = c
      BY <1>1, <1>2, <1>5, <1>6, <3>1 DEF OptsFrom
    <3>2. CASE d # c
      BY <1>2, <1>6, <2>1, <3>2 DEF OptsFrom
    <3>. QED
      BY <3>1, <3>2
  <2>3. VfsFrom(d)'
    BY <1>2, <1>6, <2>1 DEF VfsFrom
  <2>. QED
    BY <2>2, <2>3
<1>. QED
  BY <1>7, <1>8 DEF OptionsInv

LEMMA StepSetDirs ==
  ASSUME OptionsInv, NEW c \in Calls, SetCacheDir(c) \/ SetTempDir(c)
  PROVE  OptionsInv'
<1>1. UNCHANGED <<req, opts, vfs>> /\ running' \subseteq running
  BY DEF SetCacheDir, SetTempDir
<1>2. pc[c] \in {"cache", "temp"}
  BY DEF SetCacheDir, SetTempDir
<1>3. /\ \A k \in DOMAIN opts[c] : opts[c][k] \in Value
      /\ cacheDir \in Dirs /\ tempDir \in Dirs
  BY <1>2 DEF OptionsInv, TypeOK, Dirs
<1>4. cacheDir' \in Dirs /\ tempDir' \in Dirs
  BY <1>3 DEF SetCacheDir, SetTempDir, Dirs
<1>5. Goto(c, "temp") \/ Goto(c, "config") \/ Goto(c, "failed")
  BY DEF SetCacheDir, SetTempDir, Fail
<1>6. {"temp", "config", "failed"} \subseteq Labels \ {"start", "mountfn", "mounted"}
  BY DEF Labels
<1>. QED
  BY <1>1, <1>2, <1>4, <1>5, <1>6, Moved

LEMMA StepMovesOn ==
  ASSUME OptionsInv, NEW c \in Calls,
         SetConfig(c) \/ ExtractOptions(c) \/ MountFn(c) \/ Unmount(c)
  PROVE  OptionsInv'
<1>1. UNCHANGED <<req, opts, vfs>> /\ running' \subseteq running
  BY DEF SetConfig, ExtractOptions, MountFn, Unmount
<1>2. pc[c] # "start"
  BY DEF SetConfig, ExtractOptions, MountFn, Unmount
<1>3. cacheDir' \in Dirs /\ tempDir' \in Dirs
  BY DEF SetConfig, ExtractOptions, MountFn, Unmount, OptionsInv, TypeOK, Dirs
<1>4. PICK l \in {"options", "vfs", "mounted", "unmounted", "failed"} :
          Goto(c, l) /\ (l = "mounted" => pc[c] = "mountfn")
  BY DEF SetConfig, ExtractOptions, MountFn, Unmount, Fail
<1>5. l \in Labels \ {"start"}
  BY DEF Labels
<1>6. l \in {"mountfn", "mounted"} => vfs[c] # None
  BY <1>4 DEF OptionsInv, VfsFrom
<1>. QED
  BY <1>1, <1>2, <1>3, <1>4, <1>5, <1>6, Moved

LEMMA StepNewVFS ==
  ASSUME OptionsInv, NEW c \in Calls, NewVFS(c)
  PROVE  OptionsInv'
<1> DEFINE v == [dir |-> cacheDir, opt |-> Extracted(opts[c])]
           kind == [dir : Value \cup {""}, opt : [DOMAIN OptionInfo -> Value]]
<1>1. /\ pc[c] = "vfs" /\ pc' = [pc EXCEPT ![c] = "mountfn"]
      /\ vfs' = [vfs EXCEPT ![c] = v] /\ running' = running \cup {c}
      /\ UNCHANGED req /\ UNCHANGED opts /\ UNCHANGED <<cacheDir, tempDir>>
  BY DEF NewVFS, Goto
<1>2. /\ pc \in [Calls -> Labels] /\ vfs \in [Calls -> {None} \cup kind]
      /\ running \subseteq {d \in Calls : vfs[d] # None}
  BY DEF OptionsInv, TypeOK, Labels
<1>3. opts[c] \in [DOMAIN opts[c] -> Value] /\ cacheDir \in Value \cup {""}
  BY <1>1 DEF OptionsInv, TypeOK
<1>4. v \in kind /\ v # None /\ v.opt = Extracted(opts[c])
  <2>1. Extracted(opts[c]) \in [DOMAIN OptionInfo -> Value]
    BY <1>3, ExtractedType
  <2>2. v \in kind /\ v.opt = Extracted(opts[c])
    BY <1>3, <2>1
  <2>3. None \notin kind
    BY OptionsAssumption
  <2> HIDE DEF v, kind
  <2>. QED
    BY <2>2, <2>3
<1> HIDE DEF v, kind
<1>5. /\ pc' \in [Calls -> Labels] /\ pc'[c] = "mountfn"
      /\ vfs' \in [Calls -> {None} \cup kind] /\ vfs'[c] = v
      /\ \A d \in Calls : d # c => pc'[d] = pc[d] /\ vfs'[d] = vfs[d]
  BY <1>1, <1>2, <1>4 DEF Labels
<1>6. \A d \in Calls : pc'[d] = "start" <=> pc[d] = "start"
  BY <1>1, <1>5
<1>7. TypeOK'
  <2>1. running' \subseteq {d \in Calls : vfs'[d] # None}
    BY <1>1, <1>2, <1>4, <1>5
  <2>2. (\A d \in Calls : \/ pc[d] = "start" /\ opts[d] = None
                          \/ /\ DOMAIN opts[d] \subseteq Range(Normalize)
                             /\ opts[d] \in [DOMAIN opts[d] -> Value])'
    BY <1>1, <1>6 DEF OptionsInv, TypeOK
  <2>3. vfs' \in [Calls -> {None} \cup [dir : Value \cup {""}, opt : [DOMAIN OptionInfo -> Value]]]
    BY <1>5 DEF kind
  <2>. QED
    BY <1>1, <1>5, <2>1, <2>2, <2>3 DEF OptionsInv, TypeOK, Labels
<1>8. ASSUME NEW d \in Calls PROVE OptsFrom(d)' /\ VfsFrom(d)'
  <2>1. OptsFrom(d) /\ VfsFrom(d)
    BY DEF OptionsInv
  <2>2. OptsFrom(d)'
    BY <1>1, <1>6, <2>1 DEF OptsFrom
  <2>3. VfsFrom(d)'
    <3>1. CASE d = c
      BY <1>1, <1>4, <1>5, <3>1 DEF VfsFrom
    <3>2. CASE d # c
      BY <1>1, <1>5, <2>1, <3>2 DEF VfsFrom
    <3>. QED
      BY <3>1, <3>2
  <2>. QED
    BY <2>2, <2>3
<1>. QED
  BY <1>7, <1>8 DEF OptionsInv

LEMMA StepCrash ==
  ASSUME OptionsInv, Crash
  PROVE  OptionsInv'
<1>1. /\ pc \in [Calls -> Labels]
      /\ pc' = [c \in Calls |-> IF pc[c] = "start" THEN "start" ELSE "lost"]
      /\ UNCHANGED req /\ UNCHANGED opts /\ UNCHANGED vfs
      /\ running' = {} /\ cacheDir' = DefaultDir /\ tempDir' = DefaultDir
  BY DEF Crash, OptionsInv, TypeOK, Labels
<1>2. pc' \in [Calls -> Labels] /\ \A d \in Calls : pc'[d] = "start" <=> pc[d] = "start"
  BY <1>1 DEF Labels
<1>3. \A d \in Calls : pc'[d] \notin {"mountfn", "mounted"}
  BY <1>1
<1>4. TypeOK'
  BY <1>1, <1>2, OptionsAssumption DEF OptionsInv, TypeOK, Labels
<1>5. ASSUME NEW d \in Calls PROVE OptsFrom(d)' /\ VfsFrom(d)'
  <2>1. OptsFrom(d) /\ VfsFrom(d)
    BY DEF OptionsInv
  <2>. QED
    BY <1>1, <1>2, <1>3, <2>1 DEF OptsFrom, VfsFrom
<1>. QED
  BY <1>4, <1>5 DEF OptionsInv

LEMMA OptionsNext == OptionsInv /\ [Next]_vars => OptionsInv'
<1> SUFFICES ASSUME OptionsInv, [Next]_vars PROVE OptionsInv'
  OBVIOUS
<1>1. CASE Crash
  BY <1>1, StepCrash
<1>2. ASSUME NEW c \in Calls, Step(c) PROVE OptionsInv'
  BY <1>2, StepMergeOptions, StepSetDirs, StepMovesOn, StepNewVFS DEF Step
<1>3. CASE UNCHANGED vars
  BY <1>3 DEF vars, OptionsInv, TypeOK, OptsFrom, VfsFrom
<1>. QED
  BY <1>1, <1>2, <1>3 DEF Next

LEMMA OptionsInvariant == Spec => []OptionsInv
<1>. QED
  BY OptionsInit, OptionsNext, PTL DEF Spec
-----------------------------------------------------------------------------
(* Every variable holds a value of its kind; in particular a VFS never     *)
(* starts with an option that has no value (vfs.New, extractVFSOptions).   *)
THEOREM OptionsTyped == Spec => []TypeOK
<1>1. OptionsInv => TypeOK
  BY DEF OptionsInv
<1>. QED
  BY <1>1, OptionsInvariant, PTL

(* When requests with a group spell the group's parameters as the driver   *)
(* does, a volume is mounted with the options its request asks for, for    *)
(* any requests, flags and parameters and any order of the Go map          *)
(* (NodePublishVolume, mergeCopy, extractMountOptions).                    *)
THEOREM OptionsFollowRequest ==
  (\A r \in Requests : GroupSpelled(r)) => (Spec => []OptionsAsAsked)
<1> SUFFICES ASSUME \A r \in Requests : GroupSpelled(r)
             PROVE  Spec => []OptionsAsAsked
  OBVIOUS
<1>1. ASSUME OptionsInv PROVE OptionsAsAsked
  <2> SUFFICES ASSUME NEW c \in Calls, pc[c] = "mounted", NEW k \in DOMAIN OptionInfo
               PROVE  vfs[c].opt[k] \in Asked(req[c], k, OptionInfo[k])
    BY DEF OptionsAsAsked
  <2>1. OptsFrom(c) /\ VfsFrom(c) /\ req[c] \in Requests
    BY <1>1 DEF OptionsInv, TypeOK
  <2>2. PICK p \in Copies(Params(req[c])) : opts[c] = Merged(req[c], p)
    BY <2>1 DEF OptsFrom
  <2>3. vfs[c].opt = Extracted(opts[c])
    BY <2>1 DEF VfsFrom
  <2>4. vfs[c].opt[k] = IF k \in DOMAIN opts[c] THEN opts[c][k] ELSE OptionInfo[k]
    BY <2>3 DEF Extracted
  <2>. QED
    BY <2>1, <2>2, <2>4, AsAsked
<1>. QED
  BY <1>1, OptionsInvariant, PTL
-----------------------------------------------------------------------------
(* The cache directory.                                                    *)

(* A request that names a cache directory.                                 *)
Names(r) == None \notin Asked(r, "cache_dir", None)

(* A publish that has set its directory may have named dir.                *)
Named(rs, ls, dir) ==
    \E d \in Calls : ls[d] \notin {"start", "cache"} /\ MayName(rs[d], dir)

(* From SetCacheDir to NewVFS of a publish with a directory, the process   *)
(* keeps one that a publish has named.                                     *)
Window == {"temp", "config", "options", "vfs"}

DirInv ==
    \A c \in Calls :
        Names(req[c]) =>
            /\ pc[c] \in Window => Named(req, pc, cacheDir)
            /\ vfs[c] # None => Named(req, pc, vfs[c].dir)

LEMMA NamedKept ==
  ASSUME OptionsInv, [Next]_vars, NEW dir, Named(req, pc, dir)
  PROVE  Named(req', pc', dir) /\ UNCHANGED req
<1>0. pc \in [Calls -> Labels]
  BY DEF OptionsInv, TypeOK, Labels
<1>1. UNCHANGED req
  BY DEF Next, vars, Step, Crash, MergeOptions, SetCacheDir, SetTempDir, SetConfig,
         ExtractOptions, NewVFS, MountFn, Unmount
<1>2. ASSUME NEW d \in Calls, pc[d] \notin {"start", "cache"}
      PROVE  pc'[d] \notin {"start", "cache"}
  <2>1. CASE Crash
    BY <1>2, <2>1 DEF Crash
  <2>2. ASSUME NEW c \in Calls, Step(c) PROVE pc'[d] \notin {"start", "cache"}
    <3>1. CASE MergeOptions(c)
      BY <1>0, <1>2, <3>1 DEF MergeOptions, Goto
    <3>2. CASE SetCacheDir(c) \/ SetTempDir(c) \/ SetConfig(c)
      BY <1>0, <1>2, <3>2 DEF SetCacheDir, SetTempDir, SetConfig, Goto, Fail
    <3>3. CASE ExtractOptions(c) \/ NewVFS(c) \/ MountFn(c) \/ Unmount(c)
      BY <1>0, <1>2, <3>3 DEF ExtractOptions, NewVFS, MountFn, Unmount, Goto, Fail
    <3>. QED
      BY <2>2, <3>1, <3>2, <3>3 DEF Step
  <2>3. CASE UNCHANGED vars
    BY <1>2, <2>3 DEF vars
  <2>. QED
    BY <2>1, <2>2, <2>3 DEF Next
<1>3. PICK d \in Calls : pc[d] \notin {"start", "cache"} /\ MayName(req[d], dir)
  BY DEF Named
<1>4. pc'[d] \notin {"start", "cache"} /\ MayName(req'[d], dir)
  BY <1>1, <1>2, <1>3
<1>. QED
  BY <1>1, <1>4 DEF Named

(* A publish with a directory sets it; another one leaves the process's.   *)
LEMMA SetNamed ==
  ASSUME OptionsInv, NEW c \in Calls, SetCacheDir(c)
  PROVE  \/ ~Names(req[c]) /\ UNCHANGED cacheDir
         \/ MayName(req[c], cacheDir')
<1> DEFINE asked == Asked(req[c], "cache_dir", None)
<1>1. pc[c] = "cache"
  BY DEF SetCacheDir
<1>2. PICK p \in Copies(Params(req[c])) : opts[c] = Merged(req[c], p)
  BY <1>1 DEF OptionsInv, OptsFrom
<1>3. "cache_dir" \notin GroupNames /\ req[c] \in Requests
  BY DEF GroupNames, OptionsInv, TypeOK
<1>4. (IF "cache_dir" \in DOMAIN opts[c] THEN opts[c]["cache_dir"] ELSE None) \in asked
  BY <1>2, <1>3, AsAsked
<1>5. CASE "cache_dir" \notin DOMAIN opts[c]
  BY <1>4, <1>5 DEF SetCacheDir, Names
<1>6. CASE "cache_dir" \in DOMAIN opts[c]
  <2>1. opts[c]["cache_dir"] \in Value
    BY <1>1, <1>6 DEF OptionsInv, TypeOK
  <2>2. opts[c]["cache_dir"] \in asked \ {None}
    BY <1>4, <1>6, <2>1, OptionsAssumption
  <2>3. \/ cacheDir' = opts[c]["cache_dir"]
        \/ cacheDir' = "" /\ opts[c]["cache_dir"] \notin Absolute
    BY <1>6 DEF SetCacheDir
  <2> HIDE DEF asked
  <2>4. \/ cacheDir' \in asked \ {None}
        \/ cacheDir' = "" /\ ~((asked \ {None}) \subseteq Absolute)
    BY <2>2, <2>3
  <2>. QED
    BY <2>4 DEF MayName, asked
<1>. QED
  BY <1>5, <1>6

LEMMA DirNext == OptionsInv /\ DirInv /\ [Next]_vars => DirInv'
<1> SUFFICES ASSUME OptionsInv, DirInv, [Next]_vars, NEW c \in Calls, Names(req'[c])
             PROVE  /\ pc'[c] \in Window => Named(req', pc', cacheDir')
                    /\ vfs'[c] # None => Named(req', pc', vfs'[c].dir)
  BY DEF DirInv
<1>0. pc \in [Calls -> Labels] /\ DOMAIN vfs = Calls
  BY DEF OptionsInv, TypeOK, Labels
<1>1. UNCHANGED req
  BY DEF Next, vars, Step, Crash, MergeOptions, SetCacheDir, SetTempDir, SetConfig,
         ExtractOptions, NewVFS, MountFn, Unmount
<1>2. \A dir : Named(req, pc, dir) => Named(req', pc', dir)
  BY NamedKept
<1>3. /\ pc[c] \in Window => Named(req, pc, cacheDir)
      /\ vfs[c] # None => Named(req, pc, vfs[c].dir)
  BY <1>1 DEF DirInv
<1>4. CASE UNCHANGED vars
  BY <1>2, <1>3, <1>4 DEF vars
<1>5. CASE Crash
  BY <1>2, <1>3, <1>5 DEF Crash, Window
<1>6. ASSUME NEW d \in Calls, SetCacheDir(d)
      PROVE  /\ pc'[c] \in Window => Named(req', pc', cacheDir')
             /\ vfs'[c] # None => Named(req', pc', vfs'[c].dir)
  <2>1. pc[d] = "cache" /\ UNCHANGED vfs
    BY <1>6 DEF SetCacheDir
  <2>2. pc' = [pc EXCEPT ![d] = "temp"] \/ pc' = [pc EXCEPT ![d] = "failed"]
    BY <1>6 DEF SetCacheDir, Fail, Goto
  <2>3. CASE ~Names(req[d]) /\ UNCHANGED cacheDir
    <3>1. c # d
      BY <1>1, <2>3
    <3>. QED
      BY <1>0, <1>2, <1>3, <2>1, <2>2, <2>3, <3>1
  <2>4. CASE MayName(req[d], cacheDir')
    <3>1. pc'[d] \notin {"start", "cache"} /\ MayName(req'[d], cacheDir')
      BY <1>0, <1>1, <2>2, <2>4
    <3>2. Named(req', pc', cacheDir')
      BY <3>1 DEF Named
    <3>. QED
      BY <1>2, <1>3, <2>1, <3>2
  <2>. QED
    BY <1>6, <2>3, <2>4, SetNamed
<1>7. ASSUME NEW d \in Calls, NewVFS(d)
      PROVE  /\ pc'[c] \in Window => Named(req', pc', cacheDir')
             /\ vfs'[c] # None => Named(req', pc', vfs'[c].dir)
  <2>1. /\ pc[d] = "vfs" /\ pc' = [pc EXCEPT ![d] = "mountfn"] /\ UNCHANGED cacheDir
        /\ vfs' = [vfs EXCEPT ![d] = [dir |-> cacheDir, opt |-> Extracted(opts[d])]]
    BY <1>7 DEF NewVFS, Goto
  <2>2. CASE c = d
    <3>1. vfs'[c].dir = cacheDir /\ pc'[c] = "mountfn" /\ pc[c] \in Window
      BY <1>0, <2>1, <2>2 DEF Window
    <3>. QED
      BY <1>2, <1>3, <3>1 DEF Window
  <2>3. CASE c # d
    BY <1>0, <1>2, <1>3, <2>1, <2>3
  <2>. QED
    BY <2>2, <2>3
<1>8. ASSUME NEW d \in Calls,
             \/ MergeOptions(d) \/ SetTempDir(d) \/ SetConfig(d)
             \/ ExtractOptions(d) \/ MountFn(d) \/ Unmount(d)
      PROVE  /\ pc'[c] \in Window => Named(req', pc', cacheDir')
             /\ vfs'[c] # None => Named(req', pc', vfs'[c].dir)
  <2>1. UNCHANGED <<vfs, cacheDir>>
    BY <1>8 DEF MergeOptions, SetTempDir, SetConfig, ExtractOptions, MountFn, Unmount
  <2>2. PICK l : pc' = [pc EXCEPT ![d] = l] /\ (l \in Window => pc[d] \in Window)
    BY <1>8 DEF MergeOptions, SetTempDir, SetConfig, ExtractOptions, MountFn, Unmount,
                Fail, Goto, Window
  <2>3. pc'[c] \in Window => pc[c] \in Window
    BY <1>0, <2>2
  <2>. QED
    BY <1>2, <1>3, <2>1, <2>3
<1>. QED
  BY <1>4, <1>5, <1>6, <1>7, <1>8 DEF Next, Step

(* Whatever directories requests name and in whatever order publishes run, *)
(* fail and are lost, the cache of a volume that names a directory lies in *)
(* one that a publish has named, never in rclone's own; which of them it   *)
(* is depends on the order (setRcloneConfigFlags, config.SetCacheDir,      *)
(* mountPoint.Mount).                                                      *)
THEOREM CacheNeverDefault == Spec => []CacheDirNamed
<1>1. Init => DirInv
  BY DEF Init, DirInv, Window
<1>2. DirInv => CacheDirNamed
  BY DEF DirInv, Named, Names, CacheDirNamed
<1>. QED
  BY <1>1, <1>2, DirNext, OptionsInvariant, PTL DEF Spec
=============================================================================
