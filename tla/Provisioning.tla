---------------------------- MODULE Provisioning ----------------------------
(***************************************************************************)
(* From a claim to a file system path. The provisioner sends the class's   *)
(* parameters and the claim's metadata to CreateVolume, keeps the answer   *)
(* as a PersistentVolume, and the node builds the path it mounts from the  *)
(* volume context and the node-publish secret. Answers may be lost, and    *)
(* CreateVolume is then called again.                                      *)
(*                                                                         *)
(* A text is a sequence of tokens; a template variable is one token. Names *)
(* of claims, namespaces and volumes hold no template variable, no "/" and *)
(* no "#", so the order in which variables are replaced does not matter.   *)
(***************************************************************************)
EXTENDS Naturals, FiniteSets, Sequences, SequencesExt

CONSTANTS
    Claims,         \* records: namespace, name, volume name, class
    Params,         \* class -> the parameters of the StorageClass
    Secret,         \* class -> its node-publish secret
    Folded,         \* key -> ToLower(TrimSpace(key))
    Capabilities,   \* volume capabilities of a request: "mount" or "block"
    MaxCreates,     \* calls of CreateVolume for a claim
    None

Space == " "
NsVar == "${pvc.metadata.namespace}"
NmVar == "${pvc.metadata.name}"
PvVar == "${pv.metadata.name}"

(* What Kubernetes calls an object.                                        *)
Name == Seq(STRING \ {"#", "/", NsVar, NmVar, PvVar}) \ {<<>>}

(* A CSI volume as CreateVolume answers it for a claim.                    *)
Volume(c) ==
    LET keys == DOMAIN Params[c.class] IN
    [id : Seq(STRING),
     context : [keys -> Seq(STRING)] \cup [keys \cup {"remotePath"} -> Seq(STRING)]]

ASSUME ClaimsAssumption ==
    /\ Claims \subseteq [namespace : Name, name : Name, volume : Name, class : DOMAIN Params]
    /\ \A c, d \in Claims : c.volume = d.volume => c = d
    /\ MaxCreates \in Nat
    /\ None \notin Seq(STRING) /\ \A c \in Claims : None \notin Volume(c)

(* The marks and variables the driver knows are tokens.                    *)
ASSUME MarksAssumption == {"#", ":", "/", NsVar, NmVar, PvVar} \subseteq STRING

ASSUME ClassesAssumption ==
    /\ DOMAIN Secret = DOMAIN Params
    /\ \A l \in DOMAIN Params :
        /\ Params[l] \in [DOMAIN Params[l] -> Seq(STRING)]
        /\ Secret[l] \in [DOMAIN Secret[l] -> Seq(STRING)]
        /\ DOMAIN Params[l] \subseteq DOMAIN Folded
    /\ "remote" \in DOMAIN Folded => Folded["remote"] = "remote"
    /\ "remotePath" \in DOMAIN Folded => Folded["remotePath"] = "remotepath"

VARIABLES
    phase,      \* of the claim: "none", "pending", "bound", "deleted"
    creates,    \* calls of CreateVolume so far
    answers,    \* the volumes CreateVolume answered with
    pv,         \* claim -> the volume that is kept
    published   \* claim -> what the node made of it

vars == <<phase, creates, answers, pv, published>>

(* InvalidArgument; a path that is mounted is never empty.                 *)
Refused == <<>>

TrimSpace(v) ==
    LET at == {i \in DOMAIN v : v[i] # Space} IN
    IF at = {} THEN <<>> ELSE SubSeq(v, Min(at), Max(at))

(* The values a request has for a key that is matched in any case. Of two  *)
(* spellings the order of a Go map decides.                                *)
Values(params, key) ==
    LET spelled == {k \in DOMAIN params : Folded[k] = key} IN
    IF spelled = {} THEN {<<>>} ELSE {TrimSpace(params[k]) : k \in spelled}

(* Mutation: the name of the claim goes under both of its variables.       *)
replaceWithName(str, c) ==
    FlattenSeq([i \in DOMAIN str |->
        CASE str[i] \in {NsVar, NmVar} -> c.name
          [] str[i] = PvVar -> c.volume
          [] OTHER -> <<str[i]>>])

(* remotePathReplaceMap and replaceWithMap: every occurrence is replaced.  *)
replaceWithMap(str, c) ==
    FlattenSeq([i \in DOMAIN str |->
        CASE str[i] = NsVar -> c.namespace
          [] str[i] = NmVar -> c.name
          [] str[i] = PvVar -> c.volume
          [] OTHER -> <<str[i]>>])

(* Mutation: the volume is named by what it holds.                         *)
volumeIDOfPath(remote, path, c) == remote \o <<"#">> \o path

volumeID(remote, path, c) ==
    IF remote = <<>> THEN c.volume ELSE remote \o <<"#">> \o c.volume

(* Mutation: the context keeps the template.                               *)
volumeContextOfParams(params, path) == params

(* The parameters as they came, and the resolved remotePath.               *)
volumeContext(params, path) ==
    [k \in DOMAIN params \cup (IF path = <<>> THEN {} ELSE {"remotePath"}) |->
        IF k = "remotePath" /\ path # <<>> THEN path ELSE params[k]]

isValidVolumeCapabilities(caps) == caps # {} /\ "block" \notin caps

Init ==
    /\ phase = [c \in Claims |-> "none"]
    /\ creates = [c \in Claims |-> 0]
    /\ answers = [c \in Claims |-> {}]
    /\ pv = [c \in Claims |-> None]
    /\ published = [c \in Claims |-> None]

(* A claim is made; two claims of one name do not exist together.          *)
Claim(c) ==
    /\ phase[c] = "none"
    /\ \A d \in Claims : phase[d] \in {"pending", "bound"} =>
                            <<d.namespace, d.name>> # <<c.namespace, c.name>>
    /\ phase' = [phase EXCEPT ![c] = "pending"]
    /\ UNCHANGED <<creates, answers, pv, published>>

(* Mutation: an error is answered as a success without a volume.           *)
CreateNothing(c, caps) ==
    /\ phase[c] = "pending"
    /\ creates[c] < MaxCreates
    /\ creates' = [creates EXCEPT ![c] = @ + 1]
    /\ phase' = [phase EXCEPT ![c] = "bound"]
    /\ UNCHANGED <<answers, pv, published>>

(* CreateVolume. The answer is kept, or is lost and the call repeated.     *)
CreateVolume(c, caps) ==
    /\ phase[c] = "pending"
    /\ creates[c] < MaxCreates
    /\ creates' = [creates EXCEPT ![c] = @ + 1]
    /\ IF isValidVolumeCapabilities(caps)
       THEN \E remote \in Values(Params[c.class], "remote"),
               template \in Values(Params[c.class], "remotepath") :
            LET path == replaceWithMap(template, c)
                vol  == [id |-> volumeID(remote, path, c),
                         context |-> volumeContext(Params[c.class], path)]
            IN  /\ answers' = [answers EXCEPT ![c] = @ \cup {vol}]
                /\ \/ /\ pv' = [pv EXCEPT ![c] = vol]
                      /\ phase' = [phase EXCEPT ![c] = "bound"]
                   \/ UNCHANGED <<pv, phase>>
       ELSE UNCHANGED <<answers, pv, phase>>
    /\ UNCHANGED published

(* DeleteVolume does nothing but answer.                                   *)
DeleteVolume(c) ==
    /\ phase[c] = "bound"
    /\ phase' = [phase EXCEPT ![c] = "deleted"]
    /\ published' = [published EXCEPT ![c] = None]
    /\ UNCHANGED <<creates, answers, pv>>

(* What a map of parameters has under a key, exactly as it is spelled.     *)
Get(params, k) == IF k \in DOMAIN params THEN params[k] ELSE <<>>

(* The secret, overridden by the volume context.                           *)
mergeVolumeParameters(secret, context) ==
    [k \in DOMAIN secret \cup DOMAIN context |->
        IF k \in DOMAIN context THEN context[k] ELSE secret[k]]

buildFsPath(params) == Get(params, "remote") \o <<":">> \o Get(params, "remotePath")

(* NodePublishVolume as far as buildFsPath (extractPublishParams).         *)
NodePublishVolume(c) ==
    /\ phase[c] = "bound"
    /\ LET params == mergeVolumeParameters(Secret[c.class], pv[c].context) IN
       published' = [published EXCEPT ![c] =
            IF \/ Get(params, "remote") = <<>>
               \/ Get(params, "configData") = <<>> /\ Get(params, "remoteType") = <<>>
            THEN Refused
            ELSE buildFsPath(params)]
    /\ UNCHANGED <<phase, creates, answers, pv>>

Next == \E c \in Claims :
            \/ Claim(c) \/ DeleteVolume(c) \/ NodePublishVolume(c)
            \/ \E caps \in SUBSET Capabilities : CreateVolume(c, caps)

Spec == Init /\ [][Next]_vars
-----------------------------------------------------------------------------
(* Properties.                                                             *)

(* Every variable holds a value of its kind.                               *)
TypeOK ==
    /\ phase \in [Claims -> {"none", "pending", "bound", "deleted"}]
    /\ creates \in [Claims -> 0 .. MaxCreates]
    /\ DOMAIN answers = Claims /\ \A c \in Claims : answers[c] \subseteq Volume(c)
    /\ DOMAIN pv = Claims /\ \A c \in Claims : pv[c] \in {None} \cup Volume(c)
    /\ published \in [Claims -> {None} \cup Seq(STRING)]
    /\ \A c \in Claims :
        /\ phase[c] \in {"bound", "deleted"} <=> pv[c] # None
        /\ pv[c] # None => pv[c] \in answers[c]
        /\ published[c] # None => phase[c] = "bound"

(* Two claims that exist together.                                         *)
Together(c, d) == c # d /\ phase[c] = "bound" /\ phase[d] = "bound"

Inside(p, q) == p = q \/ IsPrefix(q \o <<"/">>, p)

(* A path template keeps claims apart when it ends in the claim's          *)
(* namespace and name, a path element each, or in the name of the volume,  *)
(* and a class does when that is its only template.                        *)
KeepsApart(t) ==
    \E n \in 0 .. Len(t) :
        LET pre == SubSeq(t, 1, n) IN
        /\ \A i \in DOMAIN pre : pre[i] \notin {NsVar, NmVar, PvVar}
        /\ t \in {pre \o <<NsVar, "/", NmVar>>, pre \o <<PvVar>>}

Separates(l) ==
    \E t \in Values(Params[l], "remotepath") :
        Values(Params[l], "remotepath") = {t} /\ KeepsApart(t)

(* Claims of one class that exist together are mounted on directories      *)
(* apart from each other, neither the same nor one inside the other, when  *)
(* the class's template keeps claims apart, whatever the claims are called *)
(* and whatever other classes do (replaceWithMap, buildFsPath). Claims of  *)
(* a flat or a static template may share one.                              *)
OwnDirectory ==
    \A c, d \in Claims :
        (/\ Together(c, d) /\ c.class = d.class /\ Separates(c.class)
         /\ published[c] \notin {None, Refused}
         /\ published[d] \notin {None, Refused})
        => ~Inside(published[c], published[d])

(* A volume has one ID however often CreateVolume was asked for it, and no *)
(* two volumes share one, with or without a remote in the class            *)
(* (CreateVolume): the node locks by that ID.                              *)
OneIDEach ==
    /\ \A c \in Claims : Cardinality({v.id : v \in answers[c]}) =< 1
    /\ \A c, d \in Claims : \A v \in answers[c], w \in answers[d] :
            v.id = w.id => c = d

(* What the class says, else what the secret says.                         *)
Wanted(c, key, field) ==
    LET given == Values(Params[c.class], key) IN
    IF given # {<<>>} THEN given ELSE {Get(Secret[c.class], field)}

(* A volume that is mounted is mounted from the remote and the path of its *)
(* class, the path with the claim's own metadata in it, and from those of  *)
(* the secret where the class is silent (CreateVolume, mergeVolume-        *)
(* Parameters, extractPublishParams).                                      *)
MountsTheClaim ==
    \A c \in Claims : published[c] \notin {None, Refused} =>
        \E r \in Wanted(c, "remote", "remote"),
           t \in Wanted(c, "remotepath", "remotePath") :
            published[c] = r \o <<":">> \o
                (IF Values(Params[c.class], "remotepath") = {<<>>}
                 THEN t ELSE replaceWithMap(t, c))
=============================================================================
