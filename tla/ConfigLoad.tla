----------------------------- MODULE ConfigLoad -----------------------------
(***************************************************************************)
(* From the parameters of a NodePublishVolume request to the sections of   *)
(* rclone's in-memory config (pkg/rclone/nodeserver.go, utils.go).         *)
(*                                                                         *)
(* Parameters come from the node-publish secret and from the volume        *)
(* context, and configData, itself a parameter, is an INI text of sections.*)
(* The code goes over Go maps, whose order is random, in three places: the *)
(* normalisation of the names, the sections and the keys of a section. The *)
(* model takes one step per element, in any order.                         *)
(*                                                                         *)
(* A value is the parameter it came from; what the text of a name or of a  *)
(* value looks like is left to the constants.                              *)
(***************************************************************************)
EXTENDS Naturals

CONSTANTS
    Names,       \* parameter names a user may write, without the reserved ones
    SecretNames, \* the names of a secret, among these and the reserved ones
    GroupNames,  \* the names the request's volume mount group sets
    Flags,       \* normalised names
    NormalOf,    \* normalizeRcloneFlag: name -> flag, None for ""
    Types,       \* backend types
    Options,     \* options of a backend, without "type"
    OptionOf,    \* sanitizeFlag: type, flag -> option; None without the prefix
    Passwords,   \* options rclone expects obscured
    ConfigData,  \* the sections of configData: type and options set
    RemoteName,  \* the section that remote names
    RemoteType,  \* the backend type that remoteType names
    None

Reserved == {"remote", "remotePath", "configData", "remoteType"}
Sections == DOMAIN ConfigData \cup {RemoteName}
Value    == [from : {"secret", "context", "request"}, name : Names \cup Reserved,
             obscured : BOOLEAN]

ASSUME ParametersAssumption ==
    /\ Reserved \cap Names = {} /\ GroupNames \subseteq Names
    /\ SecretNames \subseteq Names \cup Reserved
    /\ NormalOf \in [Names -> Flags \cup {None}]
    /\ OptionOf \in [Types -> [Flags -> Options \cup {None}]]
    /\ \A T \in Types : \A f, g \in Flags :
         OptionOf[T][f] = OptionOf[T][g] /\ OptionOf[T][f] # None => f = g
    /\ ConfigData \in [DOMAIN ConfigData -> [type : Types, keys : SUBSET Options]]
    /\ RemoteType \in Types
    /\ "type" \notin Options /\ None \notin Flags \cup Options \cup Value

VARIABLES
    pc,       \* the step of the publish
    secrets,  \* names in the secret
    context,  \* names in the volume context (volumeAttributes)
    group,    \* the request has a volume mount group
    pending,  \* merged names extractPublishParams has still to copy
    params,   \* pvp.params: flag -> value
    parsed,   \* allRemotes: section -> its type and the values of its options
    left,     \* (section, key) pairs loadRcloneConfig has still to write
    config    \* rclone's config: section -> option -> value

vars == <<pc, secrets, context, group, pending, params, parsed, left, config>>
request == <<secrets, context, group>>

NoValues == [o \in Options |-> None]

Init ==
    /\ pc = "merge"
    /\ secrets \in SUBSET SecretNames
    /\ context \in SUBSET (Names \cup Reserved)
    /\ group \in BOOLEAN
    /\ pending = {}
    /\ params = [f \in Flags |-> None]
    /\ parsed = [r \in Sections |-> None]
    /\ left = {}
    /\ config = [r \in Sections |-> NoValues]
-----------------------------------------------------------------------------
(* mergeVolumeParameters: the secrets first, the volume context over them, *)
(* then NodePublishVolume puts the volume mount group over both.           *)
Source(n) ==
    IF group /\ n \in GroupNames THEN "request"
    ELSE IF n \in context THEN "context" ELSE "secret"

Merged == secrets \cup context \cup (IF group THEN GroupNames ELSE {})

Param(n) == [from |-> Source(n), name |-> n, obscured |-> FALSE]

Fail == pc' = "failed"

(* extractPublishParams, the checks before its loop.                       *)
MergeVolumeParameters ==
    /\ pc = "merge"
    /\ IF "remote" \in Merged /\ Merged \cap {"configData", "remoteType"} # {}
       THEN pending' = Merged \ Reserved /\ pc' = "extract"
       ELSE Fail /\ UNCHANGED pending
    /\ UNCHANGED <<request, params, parsed, left, config>>

(* Mutation: a name that normalises to nothing is copied like any other.   *)
CopyParamUnchecked(n) ==
    /\ pc = "extract" /\ n \in pending
    /\ params' = [f \in DOMAIN params \cup {NormalOf[n]} |->
                    IF f = NormalOf[n] THEN Param(n) ELSE params[f]]
    /\ pending' = pending \ {n}
    /\ UNCHANGED <<pc, request, parsed, left, config>>

(* extractPublishParams, one round of the loop over the parameters. Two    *)
(* names may normalise alike: the later one stays.                         *)
CopyParam(n) ==
    /\ pc = "extract" /\ n \in pending
    /\ IF NormalOf[n] = None
       THEN Fail /\ UNCHANGED <<pending, params>>
       ELSE /\ params' = [params EXCEPT ![NormalOf[n]] = Param(n)]
            /\ pending' = pending \ {n}
            /\ UNCHANGED pc
    /\ UNCHANGED <<request, parsed, left, config>>

(* Mutation: the parameters are not selected by the prefix of the type.    *)
AnyTypeParams(T) ==
    [o \in Options |->
        IF \E S \in Types, f \in Flags : OptionOf[S][f] = o /\ params[f] # None
        THEN params[CHOOSE f \in Flags : /\ \E S \in Types : OptionOf[S][f] = o
                                         /\ params[f] # None]
        ELSE None]

(* extractRemoteTypeParams: the parameters that carry the type's prefix.   *)
RemoteTypeParams(T) ==
    [o \in Options |->
        IF \E f \in Flags : OptionOf[T][f] = o
        THEN params[CHOOSE f \in Flags : OptionOf[T][f] = o] ELSE None]

(* The configData of the request, or what generateConfigData makes of the  *)
(* parameters for the backend type.                                        *)
Parsed ==
    [r \in Sections |->
        IF "configData" \in Merged
        THEN IF r \in DOMAIN ConfigData
             THEN [type |-> ConfigData[r].type,
                   values |-> [o \in Options |-> IF o \in ConfigData[r].keys
                       THEN [Param("configData") EXCEPT !.obscured = o \in Passwords]
                       ELSE None]]
             ELSE None
        ELSE IF r = RemoteName
             THEN [type |-> RemoteType, values |-> RemoteTypeParams(RemoteType)]
             ELSE None]

KeysOf(p, r) ==
    IF p[r] = None THEN {}
    ELSE {"type"} \cup {o \in Options : p[r].values[o] # None}

(* generateConfigData and parseAllConfigRemotes. No parameter carries the  *)
(* prefix, or the text is not INI: codes.InvalidArgument.                  *)
GenerateConfigData ==
    /\ pc = "extract" /\ pending = {}
    /\ \/ /\ "configData" \in Merged \/ RemoteTypeParams(RemoteType) # NoValues
          /\ parsed' = Parsed
          /\ left' = {e \in Sections \X (Options \cup {"type"}) :
                         e[2] \in KeysOf(parsed', e[1])}
          /\ pc' = "load"
       \/ /\ "configData" \in Merged \/ RemoteTypeParams(RemoteType) = NoValues
          /\ Fail /\ UNCHANGED <<parsed, left>>
    /\ UNCHANGED <<request, pending, params, config>>

(* Mutation: updating a remote replaces the options it has so far.         *)
ReplaceRemote(r) ==
    LET given == RemoteTypeParams(parsed[r].type) IN
    [o \in Options |-> IF given[o] = None THEN None
                       ELSE [given[o] EXCEPT !.obscured = o \in Passwords]]

(* Mutation: passwords are stored as they are written (NoObscure).         *)
UpdateRemoteNoObscure(r) ==
    LET given == RemoteTypeParams(parsed[r].type) IN
    [o \in Options |-> IF given[o] = None THEN config[r][o] ELSE given[o]]

(* config.UpdateRemote sets the parameters of the section's type, and      *)
(* obscures the ones that are passwords.                                   *)
UpdateRemote(r) ==
    LET given == RemoteTypeParams(parsed[r].type) IN
    [o \in Options |-> IF given[o] = None THEN config[r][o]
                       ELSE [given[o] EXCEPT !.obscured = o \in Passwords]]

(* loadRcloneConfig goes over the sections one after the other.            *)
Current(r) ==
    \A s \in Sections \ {r} :
        {k \in Options \cup {"type"} : <<s, k>> \in left} \in {{}, KeysOf(parsed, s)}

(* One key of a section: SetValue, and at the key "type" UpdateRemote with *)
(* the parameters of that type, when there are any.                        *)
SetValue(r, k) ==
    /\ pc = "load" /\ <<r, k>> \in left /\ Current(r)
    /\ left' = left \ {<<r, k>>}
    /\ config' = [config EXCEPT ![r] =
         IF k = "type" THEN UpdateRemote(r)
         ELSE [@ EXCEPT ![k] = parsed[r].values[k]]]
    /\ UNCHANGED <<pc, request, pending, params, parsed>>

(* UpdateRemote does not know the backend, or the backend refuses.         *)
UpdateRemoteFails(r) ==
    /\ pc = "load" /\ <<r, "type">> \in left /\ Current(r)
    /\ RemoteTypeParams(parsed[r].type) # NoValues
    /\ Fail
    /\ UNCHANGED <<request, pending, params, parsed, left, config>>

Loaded ==
    /\ pc = "load" /\ left = {}
    /\ pc' = "loaded"
    /\ UNCHANGED <<request, pending, params, parsed, left, config>>

Next ==
    \/ MergeVolumeParameters
    \/ \E n \in Names : CopyParam(n)
    \/ GenerateConfigData
    \/ \E r \in Sections :
        \/ UpdateRemoteFails(r)
        \/ \E k \in Options \cup {"type"} : SetValue(r, k)
    \/ Loaded

Spec == Init /\ [][Next]_vars
-----------------------------------------------------------------------------
(* Every variable holds a value of its kind: pvp.params maps normalised,   *)
(* non-empty names, and sections hold values of parameters.                *)
TypeOK ==
    /\ pc \in {"merge", "extract", "load", "loaded", "failed"}
    /\ secrets \subseteq Names \cup Reserved
    /\ context \subseteq Names \cup Reserved
    /\ group \in BOOLEAN
    /\ pending \subseteq Names
    /\ params \in [Flags -> Value \cup {None}]
    /\ parsed \in [Sections ->
         [type : Types, values : [Options -> Value \cup {None}]] \cup {None}]
    /\ left \subseteq Sections \X (Options \cup {"type"})
    /\ config \in [Sections -> [Options -> Value \cup {None}]]

IsLoaded(r) == pc = "loaded" /\ parsed[r] # None

(* Whatever the order of the three loops, a loaded section has every       *)
(* option its configData sets and every option a parameter of its type     *)
(* sets, and no others (loadRcloneConfig).                                 *)
SectionComplete ==
    \A r \in Sections : IsLoaded(r) =>
        \A o \in Options : config[r][o] # None <=>
            \/ parsed[r].values[o] # None
            \/ RemoteTypeParams(parsed[r].type)[o] # None

(* With nested remotes a parameter reaches only the sections of the type   *)
(* whose prefix it carries (extractRemoteTypeParams).                      *)
OwnTypeParams ==
    \A r \in Sections, o \in Options :
        LET v == config[r][o] IN
        v # None /\ v.name \in Names =>
            OptionOf[parsed[r].type][NormalOf[v.name]] = o

(* A value of a loaded section that comes from a parameter with the        *)
(* normalised name of n, as the merge left it.                             *)
FromParam(v, n, obscured) ==
    /\ v.name \in Names /\ NormalOf[v.name] = NormalOf[n]
    /\ v = [Param(v.name) EXCEPT !.obscured = obscured]

(* No parameter of the request is lost on its way through the three loops: *)
(* the option it sets is loaded from it, or from a parameter whose name    *)
(* normalises alike, with a password obscured. Two things can come in its  *)
(* place, when the map order has the key after "type": the value configData*)
(* itself has for that option, and, without configData, the value the      *)
(* generated text has, a password in clear ("Set the remaining values      *)
(* (params)", loadRcloneConfig).                                           *)
ParamsApplied ==
    \A r \in Sections : IsLoaded(r) =>
        \A n \in Merged \cap Names :
            LET o == OptionOf[parsed[r].type][NormalOf[n]]
                v == config[r][o]
            IN  o # None =>
                  \/ FromParam(v, n, o \in Passwords)
                  \/ /\ "configData" \in Merged /\ o \in ConfigData[r].keys
                     /\ v.name = "configData" /\ v.obscured = (o \in Passwords)
                  \/ "configData" \notin Merged /\ FromParam(v, n, FALSE)
=============================================================================
