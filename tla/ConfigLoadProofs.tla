-------------------------- MODULE ConfigLoadProofs --------------------------
(***************************************************************************)
(* Proofs about ConfigLoad: what a section holds once it is loaded, for    *)
(* any parameters and any configData, whatever the order in which Go goes  *)
(* over its maps.                                                          *)
(***************************************************************************)
EXTENDS ConfigLoad, TLAPS

Section == [type : Types, values : [Options -> Value \cup {None}]]

(* What UpdateRemote and the parsing of configData make of a value.        *)
Obscured(v, o) == [v EXCEPT !.obscured = o \in Passwords]

(* What a parameter gives to an option of a section, before and after      *)
(* UpdateRemote has obscured it.                                           *)
Given(r, o)   == RemoteTypeParams(parsed[r].type)[o]
Updated(r, o) == Obscured(Given(r, o), o)

(* A parameter is stored under the normalised form of its name.            *)
ParamsFrom ==
    \A f \in Flags : params[f] # None =>
        /\ params[f].name \in Names
        /\ NormalOf[params[f].name] = f
        /\ params[f] = Param(params[f].name)

(* No name is skipped on the way from the request to the parameters.       *)
NoneSkipped ==
    /\ pc \in {"load", "loaded"} => pending = {}
    /\ pc \in {"extract", "load", "loaded"} =>
        \A n \in (Merged \ Reserved) \ pending :
            NormalOf[n] # None /\ params[NormalOf[n]] # None

Nothing == [r \in Sections |-> None]

(* The sections are those of the request, once they are parsed.            *)
ParsedFrom ==
    /\ pc \in {"merge", "extract"} => /\ parsed = Nothing /\ left = {}
                                      /\ config = [r \in Sections |-> NoValues]
    /\ parsed \in {Nothing, Parsed}
    /\ pc = "loaded" => left = {}

(* Where a value of the config comes from.                                 *)
ValueFrom(r, o) ==
    config[r][o] # None =>
        /\ parsed[r] # None
        /\ \/ parsed[r].values[o] # None /\ config[r][o] = parsed[r].values[o]
           \/ Given(r, o) # None /\ config[r][o] = Updated(r, o)

(* What is no longer left to do has been done.                             *)
ValueSet(r, o) ==
    parsed[r] # None /\ (\/ parsed[r].values[o] # None /\ <<r, o>> \notin left
                         \/ Given(r, o) # None /\ <<r, "type">> \notin left)
        => config[r][o] # None

LoadedFrom == \A r \in Sections, o \in Options : ValueFrom(r, o) /\ ValueSet(r, o)

LeftKeys == \A r \in Sections : \A k : <<r, k>> \in left => k \in KeysOf(parsed, r)

ConfigInv == /\ TypeOK /\ ParamsFrom /\ NoneSkipped
             /\ ParsedFrom /\ LeftKeys /\ LoadedFrom
-----------------------------------------------------------------------------
(* Lemmas about the operators.                                             *)

LEMMA ParamType ==
  ASSUME NEW n \in Names \cup Reserved
  PROVE  Param(n) \in Value /\ Param(n).name = n /\ ~Param(n).obscured
  BY DEF Param, Value, Source

(* The parameters of a type are values of parameters, and each is under    *)
(* the option its flag names.                                              *)
LEMMA TypeParams ==
  ASSUME TypeOK, NEW T \in Types
  PROVE  /\ RemoteTypeParams(T) \in [Options -> Value \cup {None}]
         /\ \A o \in Options : RemoteTypeParams(T)[o] # None =>
                \E f \in Flags : OptionOf[T][f] = o /\ RemoteTypeParams(T)[o] = params[f]
         /\ \A f \in Flags : OptionOf[T][f] # None =>
                RemoteTypeParams(T)[OptionOf[T][f]] = params[f]
<1>1. ASSUME NEW o \in Options
      PROVE  /\ RemoteTypeParams(T)[o] \in Value \cup {None}
             /\ RemoteTypeParams(T)[o] # None =>
                  \E f \in Flags : OptionOf[T][f] = o /\ RemoteTypeParams(T)[o] = params[f]
  <2>1. CASE \E f \in Flags : OptionOf[T][f] = o
    <3>1. PICK f \in Flags : f = CHOOSE g \in Flags : OptionOf[T][g] = o
      BY <2>1
    <3>2. OptionOf[T][f] = o
      BY <2>1, <3>1
    <3>3. RemoteTypeParams(T)[o] = params[f]
      BY <2>1, <3>1 DEF RemoteTypeParams
    <3>. QED
      BY <3>2, <3>3 DEF TypeOK
  <2>2. CASE ~\E f \in Flags : OptionOf[T][f] = o
    BY <2>2 DEF RemoteTypeParams
  <2>. QED
    BY <2>1, <2>2
<1>2. RemoteTypeParams(T) \in [Options -> Value \cup {None}]
  BY <1>1 DEF RemoteTypeParams
<1>3. ASSUME NEW f \in Flags, OptionOf[T][f] # None
      PROVE  RemoteTypeParams(T)[OptionOf[T][f]] = params[f]
  <2>1. OptionOf[T][f] \in Options
    BY <1>3, ParametersAssumption
  <2>2. \A g \in Flags : OptionOf[T][g] = OptionOf[T][f] => g = f
    BY <1>3, ParametersAssumption
  <2>3. (CHOOSE g \in Flags : OptionOf[T][g] = OptionOf[T][f]) = f
    BY <2>2
  <2>. QED
    BY <2>1, <2>3 DEF RemoteTypeParams
<1>. QED
  BY <1>1, <1>2, <1>3

LEMMA ObscuredType ==
  ASSUME NEW v \in Value, NEW o
  PROVE  /\ Obscured(v, o) \in Value
         /\ Obscured(v, o) # None
         /\ Obscured(v, o).name = v.name
         /\ Obscured(v, o).obscured = (o \in Passwords)
<1>1. (o \in Passwords) \in BOOLEAN
  OBVIOUS
<1>2. \A b \in BOOLEAN :
         /\ [v EXCEPT !.obscured = b] \in Value
         /\ [v EXCEPT !.obscured = b] # None
         /\ [v EXCEPT !.obscured = b].name = v.name
         /\ [v EXCEPT !.obscured = b].obscured = b
  <2> SUFFICES ASSUME NEW b \in BOOLEAN
               PROVE  LET w == [v EXCEPT !.obscured = b] IN
                      /\ w \in Value /\ w # None
                      /\ w.name = v.name /\ w.obscured = b
    OBVIOUS
  <2> DEFINE w == [v EXCEPT !.obscured = b]
  <2>1. w \in Value /\ w.name = v.name
    BY DEF Value
  <2>2. w.obscured = b
    BY DEF Value
  <2>3. None \notin Value
    BY ParametersAssumption
  <2> HIDE DEF w
  <2>4. w # None
    BY <2>1, <2>3
  <2>. QED
    BY <2>1, <2>2, <2>4 DEF w
<1>. QED
  BY <1>1, <1>2 DEF Obscured, Value

LEMMA ParsedType ==
  ASSUME TypeOK
  PROVE  Parsed \in [Sections -> Section \cup {None}]
<1> SUFFICES ASSUME NEW r \in Sections PROVE Parsed[r] \in Section \cup {None}
  BY DEF Parsed
<1>1. CASE "configData" \in Merged /\ r \in DOMAIN ConfigData
  <2>1. ConfigData[r].type \in Types
    BY <1>1, ParametersAssumption
  <2>2. Param("configData") \in Value
    BY ParamType DEF Reserved
  <2>3. \A o \in Options : [Param("configData") EXCEPT !.obscured = o \in Passwords] \in Value
    BY <2>2, ObscuredType DEF Obscured
  <2>. QED
    BY <1>1, <2>1, <2>3 DEF Parsed, Section
<1>2. CASE "configData" \notin Merged /\ r = RemoteName
  BY <1>2, TypeParams, ParametersAssumption DEF Parsed, Section
<1>. QED
  BY <1>1, <1>2 DEF Parsed
-----------------------------------------------------------------------------
(* The invariant.                                                          *)

LEMMA ConfigInit == Init => ConfigInv
<1> SUFFICES ASSUME Init PROVE ConfigInv
  OBVIOUS
<1>1. TypeOK
  BY ParametersAssumption DEF Init, TypeOK, NoValues
<1>2. ParamsFrom /\ NoneSkipped /\ ParsedFrom
  BY DEF Init, ParamsFrom, NoneSkipped, ParsedFrom, Nothing
<1>3. LeftKeys /\ LoadedFrom
  BY DEF Init, LeftKeys, LoadedFrom, ValueFrom, ValueSet, NoValues
<1>. QED
  BY <1>1, <1>2, <1>3 DEF ConfigInv

(* What the request says does not change.                                  *)
LEMMA RequestKept ==
  ASSUME UNCHANGED request
  PROVE  Merged' = Merged /\ \A n : Param(n)' = Param(n)
  BY DEF request, Merged, Param, Source

LEMMA ParsedKept ==
  ASSUME UNCHANGED <<request, params>>
  PROVE  Parsed' = Parsed /\ \A T : RemoteTypeParams(T)' = RemoteTypeParams(T)
<1>1. \A T : RemoteTypeParams(T)' = RemoteTypeParams(T)
  BY DEF RemoteTypeParams
<1>2. Merged' = Merged /\ Param("configData")' = Param("configData")
  BY RequestKept
<1>. QED
  BY <1>1, <1>2 DEF Parsed

(* Steps that change neither the parameters nor the sections.              *)
LEMMA SectionsUntouched ==
  ASSUME ConfigInv, UNCHANGED <<request, params, parsed, left, config>>
  PROVE  ParamsFrom' /\ LeftKeys' /\ LoadedFrom' /\ parsed' \in {Nothing, Parsed'}
<1>1. ParamsFrom'
  BY RequestKept DEF ConfigInv, ParamsFrom
<1>2. LeftKeys'
  BY DEF ConfigInv, LeftKeys, KeysOf
<1>3. \A r, o : Given(r, o)' = Given(r, o) /\ Updated(r, o)' = Updated(r, o)
  BY ParsedKept DEF Given, Updated, Obscured
<1>4. LoadedFrom'
  BY <1>3 DEF ConfigInv, LoadedFrom, ValueFrom, ValueSet
<1>5. parsed' \in {Nothing, Parsed'}
  BY ParsedKept DEF ConfigInv, ParsedFrom
<1>. QED
  BY <1>1, <1>2, <1>4, <1>5

LEMMA MergeKeeps == ConfigInv /\ MergeVolumeParameters => ConfigInv'
<1> SUFFICES ASSUME ConfigInv, MergeVolumeParameters PROVE ConfigInv'
  OBVIOUS
<1>1. UNCHANGED <<request, params, parsed, left, config>> /\ pc = "merge"
  BY DEF MergeVolumeParameters
<1>2. TypeOK'
  <2>1. TypeOK /\ Merged \subseteq Names \cup Reserved
    BY ParametersAssumption DEF ConfigInv, TypeOK, Merged
  <2>. QED
    BY <2>1 DEF TypeOK, MergeVolumeParameters, request, Fail
<1>3. NoneSkipped'
  BY <1>1, RequestKept DEF NoneSkipped, MergeVolumeParameters, Fail
<1>4. ParsedFrom'
  BY <1>1, SectionsUntouched DEF ConfigInv, ParsedFrom, MergeVolumeParameters, Fail, Nothing
<1>. QED
  BY <1>1, <1>2, <1>3, <1>4, SectionsUntouched DEF ConfigInv

LEMMA CopyKeeps ==
  ASSUME ConfigInv, NEW n \in Names, CopyParam(n)
  PROVE  ConfigInv'
<1>1. CASE NormalOf[n] = None
  <2>1. UNCHANGED <<request, params, parsed, left, config>> /\ pc' = "failed"
    BY <1>1 DEF CopyParam, Fail
  <2>2. TypeOK'
    BY <1>1 DEF ConfigInv, TypeOK, CopyParam, request, Fail
  <2>3. NoneSkipped'
    BY <2>1 DEF NoneSkipped
  <2>4. ParsedFrom'
    BY <2>1, SectionsUntouched DEF ParsedFrom
  <2>. QED
    BY <2>1, <2>2, <2>3, <2>4, SectionsUntouched DEF ConfigInv
<1>2. CASE NormalOf[n] # None
  <2>1. /\ UNCHANGED <<pc, request, parsed, left, config>> /\ pc = "extract"
        /\ params' = [params EXCEPT ![NormalOf[n]] = Param(n)]
        /\ pending' = pending \ {n}
    BY <1>2 DEF CopyParam
  <2>2. NormalOf[n] \in Flags
    BY <1>2, ParametersAssumption
  <2>3. Param(n) \in Value /\ Param(n).name = n
    BY ParamType
  <2>4. Param(n) # None
    BY <2>3, ParametersAssumption
  <2>5. params \in [Flags -> Value \cup {None}]
    BY DEF ConfigInv, TypeOK
  <2>6. TypeOK'
    BY <2>1, <2>2, <2>3 DEF ConfigInv, TypeOK, request
  <2>7. ParamsFrom'
    BY <2>1, <2>2, <2>3, <2>5, RequestKept DEF ConfigInv, ParamsFrom
  <2>8. NoneSkipped'
    BY <1>2, <2>1, <2>2, <2>4, <2>5, RequestKept, ParametersAssumption
    DEF ConfigInv, NoneSkipped
  <2>9. parsed = Nothing /\ left = {} /\ config = [r \in Sections |-> NoValues]
    BY <2>1 DEF ConfigInv, ParsedFrom
  <2>10. ParsedFrom'
    BY <2>1, <2>9 DEF ParsedFrom
  <2>11. LeftKeys' /\ LoadedFrom'
    BY <2>1, <2>9 DEF LeftKeys, LoadedFrom, ValueFrom, ValueSet, Nothing, NoValues
  <2>. QED
    BY <2>6, <2>7, <2>8, <2>10, <2>11 DEF ConfigInv
<1>. QED
  BY <1>1, <1>2

LEMMA GenerateKeeps == ConfigInv /\ GenerateConfigData => ConfigInv'
<1> SUFFICES ASSUME ConfigInv, GenerateConfigData PROVE ConfigInv'
  OBVIOUS
<1>0. /\ UNCHANGED <<request, pending, params, config>>
      /\ pc = "extract" /\ pending = {}
  BY DEF GenerateConfigData
<1>1. CASE Fail /\ UNCHANGED <<parsed, left>>
  <2>1. TypeOK'
    BY <1>0, <1>1 DEF ConfigInv, TypeOK, request, Fail
  <2>2. NoneSkipped'
    BY <1>1 DEF NoneSkipped, Fail
  <2>3. ParsedFrom'
    BY <1>0, <1>1, SectionsUntouched DEF ParsedFrom, Fail
  <2>. QED
    BY <1>0, <1>1, <2>1, <2>2, <2>3, SectionsUntouched DEF ConfigInv
<1>2. CASE /\ parsed' = Parsed /\ pc' = "load"
           /\ left' = {e \in Sections \X (Options \cup {"type"}) :
                           e[2] \in KeysOf(parsed', e[1])}
  <2>1. TypeOK'
    BY <1>0, <1>2, ParsedType DEF ConfigInv, TypeOK, request, Section
  <2>2. ParamsFrom'
    BY <1>0, RequestKept DEF ConfigInv, ParamsFrom
  <2>3. NoneSkipped'
    BY <1>0, <1>2, RequestKept DEF ConfigInv, NoneSkipped
  <2>4. ParsedFrom'
    BY <1>0, <1>2, ParsedKept DEF ParsedFrom
  <2>5. LeftKeys'
    BY <1>2 DEF LeftKeys, KeysOf
  <2>6. ASSUME NEW r \in Sections, NEW o \in Options
        PROVE  ValueFrom(r, o)' /\ ValueSet(r, o)'
    <3>1. config'[r][o] = None
      BY <1>0 DEF ConfigInv, ParsedFrom, NoValues
    <3>2. parsed'[r] # None => "type" \in KeysOf(parsed', r)
      BY DEF KeysOf
    <3>3. parsed'[r] # None /\ parsed'[r].values[o] # None => o \in KeysOf(parsed', r)
      BY DEF KeysOf
    <3>4. parsed'[r] # None => <<r, "type">> \in left'
      BY <1>2, <3>2
    <3>5. parsed'[r] # None /\ parsed'[r].values[o] # None => <<r, o>> \in left'
      BY <1>2, <3>3
    <3>. QED
      BY <3>1, <3>4, <3>5 DEF ValueFrom, ValueSet
  <2>. QED
    BY <2>1, <2>2, <2>3, <2>4, <2>5, <2>6 DEF ConfigInv, LoadedFrom
<1>. QED
  BY <1>1, <1>2 DEF GenerateConfigData

LEMMA SetKeeps ==
  ASSUME ConfigInv, NEW q \in Sections, NEW k \in Options \cup {"type"}, SetValue(q, k)
  PROVE  ConfigInv'
<1>0. /\ UNCHANGED <<pc, request, pending, params, parsed>>
      /\ pc = "load" /\ <<q, k>> \in left
      /\ left' = left \ {<<q, k>>}
  BY DEF SetValue
<1>1. k \in KeysOf(parsed, q) /\ parsed[q] # None
  BY <1>0 DEF ConfigInv, LeftKeys, KeysOf
<1>2. parsed[q] \in Section
  BY <1>1 DEF ConfigInv, TypeOK, Section
<1>3. config[q] \in [Options -> Value \cup {None}]
  BY DEF ConfigInv, TypeOK
<1>4. \A o \in Options : Given(q, o) \in Value \cup {None}
  BY <1>2, TypeParams DEF ConfigInv, Section, Given
<1>5. \A o \in Options : Given(q, o) # None => Updated(q, o) \in Value /\ Updated(q, o) # None
  BY <1>4, ObscuredType DEF Updated
<1>6. config' = [config EXCEPT ![q] = config'[q]]
  BY DEF SetValue, ConfigInv, TypeOK
<1>7. ASSUME NEW o \in Options, k = "type"
      PROVE  config'[q][o] = IF Given(q, o) = None THEN config[q][o] ELSE Updated(q, o)
  BY <1>7 DEF SetValue, UpdateRemote, Given, Updated, Obscured, ConfigInv, TypeOK
<1>8. ASSUME NEW o \in Options, k # "type"
      PROVE  config'[q][o] = IF o = k THEN parsed[q].values[k] ELSE config[q][o]
  BY <1>3, <1>8 DEF SetValue, ConfigInv, TypeOK
<1>9. k # "type" => k \in Options /\ parsed[q].values[k] # None
  BY <1>1 DEF KeysOf
<1>10. config'[q] \in [Options -> Value \cup {None}]
  <2>1. \A o \in Options : config'[q][o] \in Value \cup {None}
    BY <1>2, <1>3, <1>5, <1>7, <1>8, <1>9 DEF Section
  <2>2. config'[q] = [o \in Options |-> config'[q][o]]
    BY <1>3 DEF SetValue, UpdateRemote, ConfigInv, TypeOK
  <2>. QED
    BY <2>1, <2>2
<1>11. TypeOK'
  BY <1>0, <1>6, <1>10 DEF ConfigInv, TypeOK, request
<1>12. ParamsFrom' /\ NoneSkipped'
  BY <1>0, RequestKept DEF ConfigInv, ParamsFrom, NoneSkipped
<1>13. ParsedFrom'
  BY <1>0, ParsedKept DEF ConfigInv, ParsedFrom
<1>14. LeftKeys'
  BY <1>0 DEF ConfigInv, LeftKeys, KeysOf
<1>15. \A r, o : Given(r, o)' = Given(r, o) /\ Updated(r, o)' = Updated(r, o)
  BY <1>0, ParsedKept DEF Given, Updated, Obscured
<1>16. ASSUME NEW r \in Sections, NEW o \in Options
       PROVE  ValueFrom(r, o)' /\ ValueSet(r, o)'
  <2>0. ValueFrom(r, o) /\ ValueSet(r, o)
    BY DEF ConfigInv, LoadedFrom
  <2>1. CASE r # q
    <3>1. config'[r] = config[r]
      BY <1>6, <2>1 DEF ConfigInv, TypeOK
    <3>2. \A e : <<r, e>> \in left <=> <<r, e>> \in left'
      BY <1>0, <2>1
    <3>. QED
      BY <1>0, <1>15, <2>0, <3>1, <3>2 DEF ValueFrom, ValueSet
  <2>2. CASE r = q /\ k = "type"
    <3>1. o # "type"
      BY ParametersAssumption
    <3>2. <<q, o>> \in left' <=> <<q, o>> \in left
      BY <1>0, <2>2, <3>1
    <3>3. CASE Given(q, o) = None
      BY <1>0, <1>7, <1>15, <2>0, <2>2, <3>2, <3>3 DEF ValueFrom, ValueSet
    <3>4. CASE Given(q, o) # None
      BY <1>0, <1>1, <1>5, <1>7, <1>15, <2>2, <3>4 DEF ValueFrom, ValueSet
    <3>. QED
      BY <3>3, <3>4
  <2>3. CASE r = q /\ k # "type" /\ o # k
    <3>1. /\ <<q, o>> \in left' <=> <<q, o>> \in left
          /\ <<q, "type">> \in left' <=> <<q, "type">> \in left
      BY <1>0, <2>3
    <3>. QED
      BY <1>0, <1>8, <1>15, <2>0, <2>3, <3>1 DEF ValueFrom, ValueSet
  <2>4. CASE r = q /\ k # "type" /\ o = k
    BY <1>0, <1>1, <1>8, <1>9, <1>15, <2>4 DEF ValueFrom, ValueSet
  <2>. QED
    BY <2>1, <2>2, <2>3, <2>4
<1>. QED
  BY <1>11, <1>12, <1>13, <1>14, <1>16 DEF ConfigInv, LoadedFrom

LEMMA ConfigStep == ConfigInv /\ [Next]_vars => ConfigInv'
<1> SUFFICES ASSUME ConfigInv, [Next]_vars PROVE ConfigInv'
  OBVIOUS
<1>1. ASSUME NEW r \in Sections, UpdateRemoteFails(r) PROVE ConfigInv'
  <2>1. /\ UNCHANGED <<request, params, parsed, left, config>>
        /\ pc' = "failed"
    BY <1>1 DEF UpdateRemoteFails, Fail
  <2>2. TypeOK'
    BY <1>1 DEF UpdateRemoteFails, Fail, ConfigInv, TypeOK, request
  <2>3. NoneSkipped'
    BY <2>1 DEF NoneSkipped
  <2>4. ParsedFrom'
    BY <2>1, SectionsUntouched DEF ParsedFrom
  <2>. QED
    BY <2>1, <2>2, <2>3, <2>4, SectionsUntouched DEF ConfigInv
<1>2. CASE Loaded
  <2>1. /\ UNCHANGED <<request, pending, params, parsed, left, config>>
        /\ pc = "load" /\ pc' = "loaded" /\ left = {}
    BY <1>2 DEF Loaded
  <2>2. TypeOK'
    BY <2>1 DEF ConfigInv, TypeOK, request
  <2>3. NoneSkipped'
    BY <2>1, RequestKept DEF ConfigInv, NoneSkipped
  <2>4. ParsedFrom'
    BY <2>1, SectionsUntouched DEF ParsedFrom
  <2>. QED
    BY <2>1, <2>2, <2>3, <2>4, SectionsUntouched DEF ConfigInv
<1>3. CASE UNCHANGED vars
  <2>1. UNCHANGED <<pc, request, pending, params, parsed, left, config>>
    BY <1>3 DEF vars, request
  <2>2. TypeOK'
    BY <2>1 DEF ConfigInv, TypeOK, request
  <2>3. NoneSkipped'
    BY <2>1, RequestKept DEF ConfigInv, NoneSkipped
  <2>4. ParsedFrom'
    BY <2>1, SectionsUntouched DEF ConfigInv, ParsedFrom
  <2>. QED
    BY <2>1, <2>2, <2>3, <2>4, SectionsUntouched DEF ConfigInv
<1>. QED
  BY <1>1, <1>2, <1>3, MergeKeeps, CopyKeeps, GenerateKeeps, SetKeeps DEF Next

LEMMA AlwaysConfig == Spec => []ConfigInv
  BY ConfigInit, ConfigStep, PTL DEF Spec
-----------------------------------------------------------------------------
(* Every variable keeps its kind: pvp.params has normalised, non-empty     *)
(* names only, and a section holds nothing but values of parameters.       *)
THEOREM ConfigTyped == Spec => []TypeOK
<1>1. ConfigInv => TypeOK
  BY DEF ConfigInv
<1>. QED
  BY <1>1, AlwaysConfig, PTL

(* Whatever configData, the parameters and the order of the loops, a       *)
(* loaded section has the options of its configData and those of the       *)
(* parameters of its type, and no other (loadRcloneConfig).                *)
THEOREM SectionsComplete == Spec => []SectionComplete
<1>1. ConfigInv => SectionComplete
  <2> SUFFICES ASSUME ConfigInv, NEW r \in Sections, IsLoaded(r), NEW o \in Options
               PROVE  config[r][o] # None <=> \/ parsed[r].values[o] # None
                                              \/ Given(r, o) # None
    BY DEF SectionComplete, Given
  <2>1. left = {} /\ parsed[r] # None
    BY DEF ConfigInv, ParsedFrom, IsLoaded
  <2>2. ValueFrom(r, o) /\ ValueSet(r, o)
    BY DEF ConfigInv, LoadedFrom
  <2>. QED
    BY <2>1, <2>2 DEF ValueFrom, ValueSet
<1>. QED
  BY <1>1, AlwaysConfig, PTL

(* A parameter that reaches an option of a section carries the prefix of   *)
(* the section's type.                                                     *)
LEMMA GivenFrom ==
  ASSUME ConfigInv, NEW r \in Sections, parsed[r] # None, NEW o \in Options,
         Given(r, o) # None
  PROVE  /\ Given(r, o) \in Value /\ Given(r, o).name \in Names
         /\ ~Given(r, o).obscured
         /\ \E f \in Flags : /\ OptionOf[parsed[r].type][f] = o
                             /\ Given(r, o) = params[f]
                             /\ NormalOf[Given(r, o).name] = f
<1>1. parsed[r] \in Section /\ TypeOK
  BY DEF ConfigInv, TypeOK, Section
<1>2. PICK f \in Flags : OptionOf[parsed[r].type][f] = o /\ Given(r, o) = params[f]
  BY <1>1, TypeParams DEF Given, Section
<1>3. /\ params[f].name \in Names /\ NormalOf[params[f].name] = f
      /\ params[f] = Param(params[f].name)
  BY <1>2 DEF ConfigInv, ParamsFrom
<1>4. params[f] \in Value /\ ~params[f].obscured
  BY <1>3, ParamType
<1>. QED
  BY <1>2, <1>3, <1>4

(* What a parsed section says of an option.                                *)
LEMMA ParsedValue ==
  ASSUME ConfigInv, NEW r \in Sections, parsed[r] # None, NEW o \in Options,
         parsed[r].values[o] # None
  PROVE  \/ /\ "configData" \in Merged /\ o \in ConfigData[r].keys
            /\ parsed[r].values[o].name = "configData"
            /\ parsed[r].values[o].obscured = (o \in Passwords)
         \/ "configData" \notin Merged /\ parsed[r].values[o] = Given(r, o)
<1>1. parsed[r] = Parsed[r]
  BY DEF ConfigInv, ParsedFrom, Nothing
<1>2. CASE "configData" \in Merged
  <2>1. r \in DOMAIN ConfigData
    BY <1>1, <1>2 DEF Parsed
  <2>2. /\ parsed[r].type = ConfigData[r].type
        /\ parsed[r].values[o] = IF o \in ConfigData[r].keys
                                 THEN Obscured(Param("configData"), o) ELSE None
    BY <1>1, <1>2, <2>1 DEF Parsed, Obscured
  <2>3. /\ Param("configData") \in Value
        /\ Param("configData").name = "configData"
    BY ParamType DEF Reserved
  <2>. QED
    BY <1>2, <2>1, <2>2, <2>3, ObscuredType
<1>3. CASE "configData" \notin Merged
  BY <1>1, <1>3 DEF Parsed, Given
<1>. QED
  BY <1>2, <1>3

(* With nested remotes, whatever their number, a parameter reaches only    *)
(* sections of the type whose prefix it carries (extractRemoteTypeParams). *)
THEOREM PrefixDecides == Spec => []OwnTypeParams
<1>1. ConfigInv => OwnTypeParams
  <2> SUFFICES ASSUME ConfigInv, NEW r \in Sections, NEW o \in Options,
                      config[r][o] # None, config[r][o].name \in Names
               PROVE  OptionOf[parsed[r].type][NormalOf[config[r][o].name]] = o
    BY DEF OwnTypeParams
  <2>1. ValueFrom(r, o) /\ parsed[r] # None
    BY DEF ConfigInv, LoadedFrom, ValueFrom
  <2>2. CASE Given(r, o) # None /\ config[r][o] = Updated(r, o)
    BY <2>1, <2>2, GivenFrom, ObscuredType DEF Updated
  <2>3. CASE parsed[r].values[o] # None /\ config[r][o] = parsed[r].values[o]
    <3>1. "configData" \notin Names
      BY ParametersAssumption DEF Reserved
    <3>2. parsed[r].values[o] = Given(r, o)
      BY <2>1, <2>3, <3>1, ParsedValue
    <3>. QED
      BY <2>1, <2>3, <3>2, GivenFrom
  <2>. QED
    BY <2>1, <2>2, <2>3 DEF ValueFrom
<1>. QED
  BY <1>1, AlwaysConfig, PTL

(* No parameter of the request is lost: whatever configData, the names and *)
(* the order of the loops, the option a parameter sets is loaded from it   *)
(* or from one that normalises alike, unless the key loop of its section   *)
(* overwrites it with the value the text itself has (loadRcloneConfig).    *)
THEOREM ParametersApplied == Spec => []ParamsApplied
<1>1. ConfigInv => ParamsApplied
  <2> SUFFICES ASSUME ConfigInv, NEW r \in Sections, IsLoaded(r), NEW n \in Merged \cap Names,
                      OptionOf[parsed[r].type][NormalOf[n]] # None
               PROVE  LET o == OptionOf[parsed[r].type][NormalOf[n]]
                          v == config[r][o]
                      IN  \/ FromParam(v, n, o \in Passwords)
                          \/ /\ "configData" \in Merged /\ o \in ConfigData[r].keys
                             /\ v.name = "configData" /\ v.obscured = (o \in Passwords)
                          \/ "configData" \notin Merged /\ FromParam(v, n, FALSE)
    BY DEF ParamsApplied
  <2>1. parsed[r] \in Section /\ parsed[r] # None /\ TypeOK /\ left = {}
    BY DEF ConfigInv, TypeOK, Section, IsLoaded, ParsedFrom
  <2>2. n \in Merged \ Reserved
    BY ParametersAssumption
  <2>3. NormalOf[n] # None /\ params[NormalOf[n]] # None
    BY <2>2 DEF ConfigInv, NoneSkipped, IsLoaded
  <2>4. NormalOf[n] \in Flags /\ parsed[r].type \in Types
    BY <2>1, <2>3, ParametersAssumption DEF Section
  <2>5. PICK o \in Options : o = OptionOf[parsed[r].type][NormalOf[n]]
    BY <2>4, ParametersAssumption
  <2>6. Given(r, o) = params[NormalOf[n]] /\ Given(r, o) # None
    BY <2>1, <2>3, <2>4, <2>5, TypeParams DEF Given
  <2>7. PICK m \in Names : NormalOf[m] = NormalOf[n] /\ Given(r, o) = Param(m)
    BY <2>3, <2>4, <2>6 DEF ConfigInv, ParamsFrom
  <2>8. Param(m) \in Value /\ Param(m).name = m /\ ~Param(m).obscured
    BY ParamType
  <2>9. CASE config[r][o] = Updated(r, o)
    <3>1. config[r][o] = Obscured(Param(m), o) /\ config[r][o].name = m
      BY <2>7, <2>8, <2>9, ObscuredType DEF Updated
    <3>2. FromParam(config[r][o], n, o \in Passwords)
      BY <2>7, <3>1 DEF FromParam, Obscured
    <3>. QED
      BY <2>5, <3>2
  <2>10. CASE parsed[r].values[o] # None /\ config[r][o] = parsed[r].values[o]
    <3>1. CASE /\ "configData" \in Merged /\ o \in ConfigData[r].keys
               /\ parsed[r].values[o].name = "configData"
               /\ parsed[r].values[o].obscured = (o \in Passwords)
      BY <2>5, <2>10, <3>1
    <3>2. CASE "configData" \notin Merged /\ parsed[r].values[o] = Given(r, o)
      <4>1. config[r][o] = Param(m) /\ config[r][o].name = m
        BY <2>7, <2>8, <2>10, <3>2
      <4>2. Param(m) = [Param(m) EXCEPT !.obscured = FALSE]
        BY <2>8 DEF Value
      <4>3. FromParam(config[r][o], n, FALSE)
        BY <2>7, <4>1, <4>2 DEF FromParam
      <4>. QED
        BY <2>5, <3>2, <4>3
    <3>. QED
      BY <2>1, <2>10, <3>1, <3>2, ParsedValue
  <2>11. config[r][o] # None /\ ValueFrom(r, o)
    BY <2>1, <2>6 DEF ConfigInv, LoadedFrom, ValueSet
  <2>. QED
    BY <2>9, <2>10, <2>11 DEF ValueFrom
<1>. QED
  BY <1>1, AlwaysConfig, PTL
=============================================================================
