------------------------- MODULE ProvisioningProofs -------------------------
(***************************************************************************)
(* Proofs about Provisioning, for any claims and classes.                  *)
(***************************************************************************)
EXTENDS Provisioning, FiniteSetTheorems, TLAPS

Text == Seq(STRING)

(* A set of natural numbers that is not empty has a least element, and a   *)
(* largest one when it is bounded. What follows uses them instead of an    *)
(* induction.                                                              *)
LEMMA LeastNumber ==
  ASSUME NEW T \in SUBSET Nat, T # {}
  PROVE  \E n \in T : \A m \in T : n <= m
<1>1. PICK n \in T : \A m \in T : ~(<<m, n>> \in OpToRel(<, Nat))
  BY NatLessThanWellFounded, WFMin, Zenon
<1>2. \A m \in T : ~(m < n)
  BY <1>1 DEF OpToRel
<1>. QED
  BY <1>2

LEMMA EndsOfSet ==
  ASSUME NEW T \in SUBSET Nat, T # {}, NEW b \in Nat, \A n \in T : n <= b
  PROVE  Min(T) \in T /\ Max(T) \in T
<1>1. Min(T) \in T
  BY LeastNumber DEF Min
<1> DEFINE up == {n \in Nat : \A m \in T : m <= n}
<1>2. PICK n \in up : \A m \in up : n <= m
  BY LeastNumber
<1>3. n \in T
  <2>1. ASSUME n \notin T PROVE FALSE
    <3>0. PICK x \in T : TRUE
      OBVIOUS
    <3>1. n # 0
      BY <1>2, <2>1, <3>0
    <3>2. n - 1 \in up
      BY <1>2, <2>1, <3>1
    <3>. QED
      BY <1>2, <3>2
  <2>. QED
    BY <2>1
<1>4. \E x \in T : \A y \in T : x >= y
  BY <1>2, <1>3
<1>. QED
  BY <1>1, <1>4 DEF Max
-----------------------------------------------------------------------------
(* Texts.                                                                  *)

LEMMA TextJoin == \A a, b \in Text : a \o b \in Text
  BY DEF Text

LEMMA TextMarks == <<>> \in Text /\ <<"#">> \in Text /\ <<":">> \in Text /\ <<"/">> \in Text
<1>1. "#" \in STRING /\ ":" \in STRING /\ "/" \in STRING
  BY MarksAssumption
<1>2. ASSUME NEW S PROVE <<>> \in Seq(S) /\ \A x \in S : <<x>> \in Seq(S)
  OBVIOUS
<1>3. <<>> \in Text /\ \A x \in STRING : <<x>> \in Text
  BY <1>2 DEF Text
<1>. QED
  BY <1>1, <1>3

LEMMA TrimType == ASSUME NEW v \in Text PROVE TrimSpace(v) \in Text
<1> DEFINE at == {i \in DOMAIN v : v[i] # Space}
<1>1. CASE at = {}
  BY <1>1 DEF TrimSpace, Text
<1>2. CASE at # {}
  <2>1. at \in SUBSET Nat /\ Len(v) \in Nat /\ \A n \in at : n <= Len(v)
    BY DEF Text
  <2>2. Min(at) \in at /\ Max(at) \in at
    <3> HIDE DEF at
    <3>. QED
      BY <1>2, <2>1, EndsOfSet
  <2>3. Min(at) \in 1 .. Len(v) /\ Max(at) \in 1 .. Len(v)
    BY <2>2 DEF Text
  <2> HIDE DEF at
  <2>4. SubSeq(v, Min(at), Max(at)) \in Text
    BY <2>3 DEF Text
  <2>. QED
    BY <1>2, <2>4 DEF TrimSpace, at
<1>. QED
  BY <1>1, <1>2

(* FlattenSeq, as the function its recursion defines.                      *)
FlatStep(f, s, i) == IF i = 1 THEN s[i] ELSE f[i - 1] \o s[i]
IsFlat(f, s, n) == f = [i \in 1 .. n |-> FlatStep(f, s, i)]

LEMMA FlatExists ==
  ASSUME NEW s, NEW N \in Nat
  PROVE  \E f : IsFlat(f, s, N)
<1> DEFINE Bad == {n \in Nat : ~\E f : IsFlat(f, s, n)}
<1>1. ASSUME Bad # {} PROVE FALSE
  <2>1. PICK n \in Bad : \A m \in Bad : n <= m
    BY <1>1, LeastNumber
  <2>2. CASE n = 0
    <3>1. IsFlat([i \in 1 .. n |-> <<>>], s, n)
      BY <2>2 DEF IsFlat
    <3>. QED
      BY <2>1, <3>1
  <2>3. CASE n # 0
    <3>0. n - 1 \in Nat /\ ~(n <= n - 1)
      BY <2>3
    <3>1. n - 1 \notin Bad
      <4> HIDE DEF Bad
      <4>. QED
        BY <2>1, <3>0
    <3>2. PICK f : IsFlat(f, s, n - 1)
      BY <3>0, <3>1
    <3> DEFINE h == [i \in 1 .. n |-> IF i < n THEN f[i]
                                      ELSE IF n = 1 THEN s[n] ELSE f[n - 1] \o s[n]]
    <3>3. ASSUME NEW i \in 1 .. n PROVE h[i] = FlatStep(h, s, i)
      <4>1. i < n => f[i] = FlatStep(f, s, i)
        BY <3>2 DEF IsFlat
      <4>2. i # 1 => i - 1 \in 1 .. n /\ i - 1 < n
        OBVIOUS
      <4>3. i # 1 => h[i - 1] = f[i - 1]
        BY <4>2
      <4>4. FlatStep(h, s, i) = FlatStep(f, s, i)
        BY <4>3 DEF FlatStep
      <4>5. CASE i < n
        BY <4>1, <4>4, <4>5
      <4>6. CASE i = n
        <5>1. h[n] = IF n = 1 THEN s[n] ELSE f[n - 1] \o s[n]
          BY <2>3
        <5>2. h[i] = FlatStep(f, s, i)
          BY <4>6, <5>1 DEF FlatStep
        <5>. QED
          BY <4>4, <5>2
      <4>7. i < n \/ i = n
        OBVIOUS
      <4>. QED
        BY <4>5, <4>6, <4>7
    <3>4. IsFlat(h, s, n)
      BY <3>3 DEF IsFlat
    <3>. QED
      BY <3>4, <2>1
  <2>. QED
    BY <2>2, <2>3
<1>. QED
  BY <1>1

(* FlattenSeq is the last of the texts its parts add up to.                *)
LEMMA Flattened ==
  ASSUME NEW s \in Seq(Text), s # <<>>
  PROVE  \E f : /\ FlattenSeq(s) = f[Len(s)]
                /\ f[1] = s[1]
                /\ \A i \in 2 .. Len(s) : f[i] = f[i - 1] \o s[i]
<1> DEFINE f == CHOOSE g : IsFlat(g, s, Len(s))
<1>1. Len(s) \in Nat /\ Len(s) # 0
  OBVIOUS
<1>2. IsFlat(f, s, Len(s))
  BY <1>1, FlatExists
<1>3. FlattenSeq(s) = f[Len(s)]
  BY <1>1 DEF FlattenSeq, IsFlat, FlatStep
<1> HIDE DEF f
<1>4. \A i \in 1 .. Len(s) : f[i] = FlatStep(f, s, i)
  BY <1>2 DEF IsFlat
<1>5. f[1] = s[1]
  <2>1. 1 \in 1 .. Len(s) /\ FlatStep(f, s, 1) = s[1]
    BY <1>1 DEF FlatStep
  <2>. QED
    BY <1>4, <2>1
<1>6. ASSUME NEW i \in 2 .. Len(s) PROVE f[i] = f[i - 1] \o s[i]
  <2>1. i \in 1 .. Len(s) /\ i # 1
    OBVIOUS
  <2>2. f[i] = FlatStep(f, s, i) /\ FlatStep(f, s, i) = f[i - 1] \o s[i]
    BY <1>4, <2>1 DEF FlatStep
  <2>. QED
    BY <2>2
<1>. QED
  BY <1>3, <1>5, <1>6

(* Parts that are texts make a text, and it is empty only without parts.   *)
LEMMA FlattenType ==
  ASSUME NEW s \in Seq(Text), \A i \in DOMAIN s : s[i] # <<>>
  PROVE  FlattenSeq(s) \in Text /\ (FlattenSeq(s) = <<>> <=> s = <<>>)
<1>1. CASE s = <<>>
  BY <1>1 DEF FlattenSeq, Text
<1>2. CASE s # <<>>
  <2>1. PICK f : /\ FlattenSeq(s) = f[Len(s)]
                 /\ f[1] = s[1]
                 /\ \A i \in 2 .. Len(s) : f[i] = f[i - 1] \o s[i]
    BY <1>2, Flattened
  <2> DEFINE Good(i) == f[i] \in Text /\ f[i] # <<>>
             Bad == {i \in 1 .. Len(s) : ~Good(i)}
  <2>0. \A i \in 1 .. Len(s) : s[i] \in Text /\ s[i] # <<>>
    OBVIOUS
  <2>2. ASSUME Bad # {} PROVE FALSE
    <3>0. Bad \in SUBSET Nat
      OBVIOUS
    <3>1. PICK n \in Bad : \A m \in Bad : n <= m
      <4> HIDE DEF Bad
      <4>. QED
        BY <2>2, <3>0, LeastNumber
    <3>2. n # 1
      <4>1. Good(1)
        BY <1>2, <2>0, <2>1
      <4>. QED
        BY <3>1, <4>1
    <3>3. n - 1 \in 1 .. Len(s) /\ n \in 2 .. Len(s) /\ ~(n <= n - 1)
      BY <3>2
    <3>4. n - 1 \notin Bad
      <4> HIDE DEF Bad
      <4>. QED
        BY <3>1, <3>3
    <3>5. Good(n - 1) /\ f[n] = f[n - 1] \o s[n]
      BY <2>1, <3>3, <3>4
    <3>6. Good(n)
      BY <2>0, <3>3, <3>5 DEF Text
    <3>. QED
      BY <3>1, <3>6
  <2>3. Len(s) \in 1 .. Len(s)
    BY <1>2
  <2>4. Good(Len(s))
    BY <2>2, <2>3
  <2>. QED
    BY <1>2, <2>1, <2>4
<1>. QED
  BY <1>1, <1>2
-----------------------------------------------------------------------------
(* The operations of the controller and of the node.                       *)

LEMMA NameType == \A n \in Name : n \in Text /\ n # <<>>
  BY DEF Name, Text

LEMMA ReplaceType ==
  ASSUME NEW c \in Claims, NEW t \in Text
  PROVE  replaceWithMap(t, c) \in Text /\ (replaceWithMap(t, c) = <<>> <=> t = <<>>)
<1> DEFINE part(i) == CASE t[i] = NsVar -> c.namespace
                        [] t[i] = NmVar -> c.name
                        [] t[i] = PvVar -> c.volume
                        [] OTHER -> <<t[i]>>
           parts == [i \in DOMAIN t |-> part(i)]
<1>1. c.namespace \in Name /\ c.name \in Name /\ c.volume \in Name
  BY ClaimsAssumption
<1>2. ASSUME NEW i \in DOMAIN t PROVE part(i) \in Text /\ part(i) # <<>>
  <2>1. <<t[i]>> \in Text /\ <<t[i]>> # <<>>
    BY DEF Text
  <2>. QED
    BY <1>1, <2>1, NameType
<1> HIDE DEF part
<1>3. DOMAIN t = 1 .. Len(t) /\ Len(t) \in Nat
  BY DEF Text
<1>4. parts \in Seq(Text) /\ DOMAIN parts = DOMAIN t
  BY <1>2, <1>3
<1>5. \A i \in DOMAIN parts : parts[i] # <<>>
  BY <1>2
<1>6. parts = <<>> <=> t = <<>>
  <2>1. DOMAIN parts = 1 .. Len(parts) /\ Len(parts) \in Nat
    BY <1>4
  <2>2. (parts = <<>> <=> Len(parts) = 0) /\ (t = <<>> <=> Len(t) = 0)
    <3> HIDE DEF parts
    <3>. QED
      BY <1>4 DEF Text
  <2>3. Len(parts) = Len(t)
    <3> HIDE DEF parts
    <3>. QED
      BY <1>3, <1>4, <2>1
  <2>. QED
    BY <2>2, <2>3
<1>7. replaceWithMap(t, c) = FlattenSeq(parts)
  BY DEF replaceWithMap, part
<1> HIDE DEF parts
<1>. QED
  BY <1>4, <1>5, <1>6, <1>7, FlattenType

LEMMA ValuesType ==
  ASSUME NEW l \in DOMAIN Params, NEW key
  PROVE  Values(Params[l], key) \in SUBSET Text
<1>1. <<>> \in Text
  BY DEF Text
<1>2. \A k \in DOMAIN Params[l] : Params[l][k] \in Text
  BY ClassesAssumption DEF Text
<1>3. \A k \in DOMAIN Params[l] : TrimSpace(Params[l][k]) \in Text
  BY <1>2, TrimType
<1>. QED
  BY <1>1, <1>3 DEF Values

(* What CreateVolume answers for a claim with a remote and a template of   *)
(* its class.                                                              *)
Answered(c, r, t) ==
    [id |-> volumeID(r, replaceWithMap(t, c), c),
     context |-> volumeContext(Params[c.class], replaceWithMap(t, c))]

LEMMA AnswerType ==
  ASSUME NEW c \in Claims, NEW r \in Values(Params[c.class], "remote"),
         NEW t \in Values(Params[c.class], "remotepath")
  PROVE  Answered(c, r, t) \in Volume(c)
<1> DEFINE path == replaceWithMap(t, c)
           keys == DOMAIN Params[c.class]
<1>1. c.class \in DOMAIN Params /\ c.volume \in Name
  BY ClaimsAssumption
<1>2. r \in Text /\ t \in Text /\ c.volume \in Text
  BY <1>1, ValuesType, NameType
<1>3. path \in Text
  BY <1>2, ReplaceType
<1> HIDE DEF path
<1>4. volumeID(r, path, c) \in Seq(STRING)
  BY <1>2, TextJoin, TextMarks DEF volumeID, Text
<1>5. Params[c.class] \in [keys -> Seq(STRING)]
  BY <1>1, ClassesAssumption
<1>6. volumeContext(Params[c.class], path)
        \in [keys -> Seq(STRING)] \cup [keys \cup {"remotePath"} -> Seq(STRING)]
  BY <1>3, <1>5 DEF volumeContext, Text
<1>. QED
  BY <1>4, <1>6 DEF Answered, Volume, path

(* What NodePublishVolume makes of a volume.                               *)
FsPath(c, v) ==
    LET params == mergeVolumeParameters(Secret[c.class], v.context) IN
    IF \/ Get(params, "remote") = <<>>
       \/ Get(params, "configData") = <<>> /\ Get(params, "remoteType") = <<>>
    THEN Refused
    ELSE buildFsPath(params)

LEMMA FsPathType ==
  ASSUME NEW c \in Claims, NEW v \in Volume(c)
  PROVE  FsPath(c, v) \in Seq(STRING)
<1> DEFINE params == mergeVolumeParameters(Secret[c.class], v.context)
<1>1. c.class \in DOMAIN Params
  BY ClaimsAssumption
<1>2. Secret[c.class] \in [DOMAIN Secret[c.class] -> Seq(STRING)]
  BY <1>1, ClassesAssumption
<1>3. v.context \in [DOMAIN v.context -> Seq(STRING)]
  BY DEF Volume
<1>4. \A k \in DOMAIN params : params[k] \in Seq(STRING)
  BY <1>2, <1>3 DEF mergeVolumeParameters
<1> HIDE DEF params
<1>5. \A k : Get(params, k) \in Seq(STRING)
  BY <1>4, TextMarks DEF Get, Text
<1>6. buildFsPath(params) \in Seq(STRING)
  BY <1>5, TextJoin, TextMarks DEF buildFsPath, Text
<1>. QED
  BY <1>6, TextMarks DEF FsPath, Refused, params, Text
-----------------------------------------------------------------------------
(* The invariant.                                                          *)

(* A volume was answered for a remote and a template of its class.         *)
AnswersFrom(c) ==
    \A v \in answers[c] : \E r \in Values(Params[c.class], "remote"),
                             t \in Values(Params[c.class], "remotepath") :
        v = Answered(c, r, t)

(* What is mounted was made from the volume that is kept.                  *)
PublishedFrom(c) == published[c] # None => published[c] = FsPath(c, pv[c])

(* Two claims of one name do not exist together.                           *)
NamesApart(c, d) ==
    phase[c] \in {"pending", "bound"} /\ phase[d] \in {"pending", "bound"}
    /\ <<c.namespace, c.name>> = <<d.namespace, d.name>> => c = d

ClaimInv ==
    /\ TypeOK
    /\ \A c \in Claims : AnswersFrom(c) /\ PublishedFrom(c)
    /\ \A c, d \in Claims : NamesApart(c, d)

LEMMA ClaimInit == Init => ClaimInv
  BY ClaimsAssumption DEF Init, ClaimInv, TypeOK, AnswersFrom, PublishedFrom, NamesApart

LEMMA CreateKeeps ==
  ASSUME ClaimInv, NEW c \in Claims, NEW caps \in SUBSET Capabilities, CreateVolume(c, caps)
  PROVE  ClaimInv'
<1>0. TypeOK /\ UNCHANGED published
  BY DEF ClaimInv, CreateVolume
<1>1. creates' \in [Claims -> 0 .. MaxCreates]
  BY ClaimsAssumption DEF ClaimInv, TypeOK, CreateVolume
<1>2. published[c] = None /\ pv[c] = None /\ phase[c] = "pending"
  BY DEF ClaimInv, TypeOK, CreateVolume
<1>3. CASE UNCHANGED <<answers, pv, phase>>
  BY <1>0, <1>1, <1>3 DEF ClaimInv, TypeOK, AnswersFrom, PublishedFrom, NamesApart
<1>4. CASE ~UNCHANGED <<answers, pv, phase>>
  <2>1. PICK r \in Values(Params[c.class], "remote"),
             t \in Values(Params[c.class], "remotepath") :
          /\ answers' = [answers EXCEPT ![c] = @ \cup {Answered(c, r, t)}]
          /\ \/ /\ pv' = [pv EXCEPT ![c] = Answered(c, r, t)]
                /\ phase' = [phase EXCEPT ![c] = "bound"]
             \/ UNCHANGED <<pv, phase>>
    BY <1>4 DEF CreateVolume, Answered
  <2> DEFINE vol == Answered(c, r, t)
  <2>2. vol \in Volume(c) /\ vol # None
    BY AnswerType, ClaimsAssumption
  <2>3. ASSUME NEW d \in Claims PROVE AnswersFrom(d)'
    <3>1. CASE d # c
      BY <1>0, <2>1, <3>1 DEF ClaimInv, TypeOK, AnswersFrom
    <3>2. CASE d = c
      <4>1. answers'[c] = answers[c] \cup {Answered(c, r, t)}
        BY <1>0, <2>1 DEF TypeOK
      <4>. QED
        BY <3>2, <4>1 DEF ClaimInv, AnswersFrom
    <3>. QED
      BY <3>1, <3>2
  <2> HIDE DEF vol
  <2>4. /\ DOMAIN answers' = Claims /\ DOMAIN pv' = Claims
        /\ phase' \in [Claims -> {"none", "pending", "bound", "deleted"}]
    BY <1>0, <2>1 DEF TypeOK
  <2>5. ASSUME NEW d \in Claims
        PROVE  /\ answers'[d] \subseteq Volume(d) /\ pv'[d] \in {None} \cup Volume(d)
               /\ phase'[d] \in {"bound", "deleted"} <=> pv'[d] # None
               /\ pv'[d] # None => pv'[d] \in answers'[d]
               /\ published'[d] # None => phase'[d] = "bound"
    <3>1. CASE d # c
      BY <1>0, <2>1, <3>1 DEF TypeOK
    <3>2. CASE d = c
      <4>1. answers'[c] = answers[c] \cup {vol}
        BY <1>0, <2>1 DEF TypeOK, vol
      <4>2. CASE UNCHANGED <<pv, phase>>
        BY <1>0, <1>2, <2>2, <3>2, <4>1, <4>2 DEF TypeOK
      <4>3. CASE pv' = [pv EXCEPT ![c] = vol] /\ phase' = [phase EXCEPT ![c] = "bound"]
        <5>1. pv'[c] = vol /\ phase'[c] = "bound"
          BY <1>0, <4>3 DEF TypeOK
        <5>. QED
          BY <1>0, <1>2, <2>2, <3>2, <4>1, <5>1 DEF TypeOK
      <4>. QED
        BY <2>1, <4>2, <4>3 DEF vol
    <3>. QED
      BY <3>1, <3>2
  <2>6. TypeOK'
    BY <1>0, <1>1, <2>4, <2>5 DEF TypeOK
  <2>7. ASSUME NEW d \in Claims PROVE PublishedFrom(d)'
    <3>1. CASE d = c
      BY <1>0, <1>2, <3>1 DEF PublishedFrom
    <3>2. CASE d # c
      <4>1. pv'[d] = pv[d]
        BY <1>0, <2>1, <3>2 DEF TypeOK
      <4>. QED
        BY <1>0, <4>1 DEF ClaimInv, PublishedFrom
    <3>. QED
      BY <3>1, <3>2
  <2>8. ASSUME NEW d \in Claims, NEW e \in Claims PROVE NamesApart(d, e)'
    <3>1. \A g \in Claims : phase'[g] \in {"pending", "bound"} <=> phase[g] \in {"pending", "bound"}
      BY <1>0, <1>2, <2>1 DEF TypeOK
    <3>. QED
      BY <3>1 DEF ClaimInv, NamesApart
  <2>. QED
    BY <2>3, <2>6, <2>7, <2>8 DEF ClaimInv
<1>. QED
  BY <1>3, <1>4

LEMMA PublishKeeps ==
  ASSUME ClaimInv, NEW c \in Claims, NodePublishVolume(c)
  PROVE  ClaimInv'
<1>1. UNCHANGED <<phase, creates, answers, pv>>
  BY DEF NodePublishVolume
<1>2. published' = [published EXCEPT ![c] = FsPath(c, pv[c])]
  BY DEF NodePublishVolume, FsPath
<1>3. pv[c] # None /\ pv[c] \in Volume(c) /\ phase[c] = "bound"
  BY DEF NodePublishVolume, ClaimInv, TypeOK
<1>4. FsPath(c, pv[c]) \in Seq(STRING)
  BY <1>3, FsPathType
<1>5. published' \in [Claims -> {None} \cup Seq(STRING)]
  BY <1>2, <1>4 DEF ClaimInv, TypeOK
<1>6. TypeOK'
  BY <1>1, <1>2, <1>3, <1>5 DEF ClaimInv, TypeOK
<1>7. ASSUME NEW d \in Claims PROVE PublishedFrom(d)' /\ AnswersFrom(d)'
  BY <1>1, <1>2 DEF ClaimInv, TypeOK, PublishedFrom, AnswersFrom
<1>. QED
  BY <1>1, <1>6, <1>7 DEF ClaimInv, NamesApart

LEMMA ClaimStep == ClaimInv /\ [Next]_vars => ClaimInv'
<1> SUFFICES ASSUME ClaimInv, [Next]_vars PROVE ClaimInv'
  OBVIOUS
<1>1. ASSUME NEW c \in Claims, Claim(c) PROVE ClaimInv'
  <2>1. UNCHANGED <<creates, answers, pv, published>> /\ phase[c] = "none"
        /\ phase' = [phase EXCEPT ![c] = "pending"]
    BY <1>1 DEF Claim
  <2>2. TypeOK'
    BY <2>1 DEF ClaimInv, TypeOK
  <2>3. \A d, e \in Claims : NamesApart(d, e)'
    BY <1>1, <2>1 DEF ClaimInv, TypeOK, NamesApart, Claim
  <2>. QED
    BY <2>1, <2>2, <2>3 DEF ClaimInv, AnswersFrom, PublishedFrom
<1>2. ASSUME NEW c \in Claims, DeleteVolume(c) PROVE ClaimInv'
  <2>1. UNCHANGED <<creates, answers, pv>> /\ phase[c] = "bound"
        /\ phase' = [phase EXCEPT ![c] = "deleted"]
        /\ published' = [published EXCEPT ![c] = None]
    BY <1>2 DEF DeleteVolume
  <2>2. TypeOK'
    BY <2>1 DEF ClaimInv, TypeOK
  <2>3. \A d, e \in Claims : NamesApart(d, e)'
    BY <2>1 DEF ClaimInv, TypeOK, NamesApart
  <2>. QED
    BY <2>1, <2>2, <2>3 DEF ClaimInv, TypeOK, AnswersFrom, PublishedFrom
<1>3. CASE UNCHANGED vars
  BY <1>3 DEF vars, ClaimInv, TypeOK, AnswersFrom, PublishedFrom, NamesApart
<1>. QED
  BY <1>1, <1>2, <1>3, CreateKeeps, PublishKeeps DEF Next

LEMMA AlwaysClaims == Spec => []ClaimInv
  BY ClaimInit, ClaimStep, PTL DEF Spec

(* A claim is bound exactly when a volume is kept for it, one that         *)
(* CreateVolume answered with; texts stay texts on the way from the class  *)
(* to buildFsPath.                                                         *)
THEOREM ProvisioningTyped == Spec => []TypeOK
<1>1. ClaimInv => TypeOK
  BY DEF ClaimInv
<1>. QED
  BY <1>1, AlwaysClaims, PTL
-----------------------------------------------------------------------------
(* The IDs of volumes.                                                     *)

(* A text that ends in a mark and a name tells the name.                   *)
LEMMA LastMark ==
  ASSUME NEW a \in Text, NEW b \in Text, NEW m \in Name, NEW n \in Name,
         a \o <<"#">> \o m = b \o <<"#">> \o n
  PROVE  m = n
<1> DEFINE x == a \o <<"#">> \o m
           y == b \o <<"#">> \o n
<1>0. /\ m \in Text /\ n \in Text /\ <<"#">> \in Text
      /\ \A i \in 1 .. Len(m) : m[i] # "#"
      /\ \A i \in 1 .. Len(n) : n[i] # "#"
  BY NameType, TextMarks DEF Name
<1>1. /\ Len(x) = Len(a) + 1 + Len(m)
      /\ x[Len(a) + 1] = "#"
      /\ \A i \in 1 .. Len(m) : x[Len(a) + 1 + i] = m[i]
  BY <1>0 DEF Text
<1>2. /\ Len(y) = Len(b) + 1 + Len(n)
      /\ y[Len(b) + 1] = "#"
      /\ \A i \in 1 .. Len(n) : y[Len(b) + 1 + i] = n[i]
  BY <1>0 DEF Text
<1>3. x = y
  OBVIOUS
<1>4. /\ Len(a) \in Nat /\ Len(b) \in Nat /\ Len(m) \in Nat /\ Len(n) \in Nat
  BY <1>0 DEF Text
<1> HIDE DEF x, y
<1>5. ~(Len(a) < Len(b))
  <2>1. ASSUME Len(a) < Len(b) PROVE FALSE
    <3> DEFINE i == Len(b) - Len(a)
    <3>1. i \in 1 .. Len(m) /\ Len(a) + 1 + i = Len(b) + 1
      BY <1>1, <1>2, <1>3, <1>4, <2>1
    <3>2. x[Len(a) + 1 + i] = m[i] /\ m[i] # "#"
      BY <1>0, <1>1, <3>1
    <3>. QED
      BY <1>2, <1>3, <3>1, <3>2
  <2>. QED
    BY <2>1
<1>6. ~(Len(b) < Len(a))
  <2>1. ASSUME Len(b) < Len(a) PROVE FALSE
    <3> DEFINE i == Len(a) - Len(b)
    <3>1. i \in 1 .. Len(n) /\ Len(b) + 1 + i = Len(a) + 1
      BY <1>1, <1>2, <1>3, <1>4, <2>1
    <3>2. y[Len(b) + 1 + i] = n[i] /\ n[i] # "#"
      BY <1>0, <1>2, <3>1
    <3>. QED
      BY <1>1, <1>3, <3>1, <3>2
  <2>. QED
    BY <2>1
<1>7. Len(a) = Len(b) /\ Len(m) = Len(n)
  BY <1>1, <1>2, <1>3, <1>4, <1>5, <1>6
<1>8. \A i \in 1 .. Len(m) : m[i] = n[i]
  BY <1>1, <1>2, <1>3, <1>7
<1>. QED
  BY <1>0, <1>7, <1>8 DEF Text

(* A name holds no mark.                                                   *)
LEMMA MarkInID ==
  ASSUME NEW a \in Text, NEW m \in Name, NEW n \in Name
  PROVE  a \o <<"#">> \o m # n
<1>0. m \in Text /\ n \in Text /\ \A i \in 1 .. Len(n) : n[i] # "#"
  BY NameType DEF Name
<1>1. /\ Len(a) + 1 \in 1 .. Len(a \o <<"#">> \o m)
      /\ (a \o <<"#">> \o m)[Len(a) + 1] = "#"
  BY <1>0 DEF Text
<1>. QED
  BY <1>0, <1>1

LEMMA IDsApart ==
  ASSUME NEW c \in Claims, NEW d \in Claims, NEW r \in Text, NEW q \in Text, NEW p1, NEW p2,
         volumeID(r, p1, c) = volumeID(q, p2, d)
  PROVE  c = d
<1>1. c.volume \in Name /\ d.volume \in Name
  BY ClaimsAssumption
<1>2. c.volume = d.volume
  BY <1>1, LastMark, MarkInID DEF volumeID
<1>. QED
  BY <1>2, ClaimsAssumption

(* The class gives one remote, or none.                                    *)
OneRemote == \A l \in DOMAIN Params : \E r : Values(Params[l], "remote") = {r}

(* In classes that give one remote, a volume keeps its ID however often    *)
(* CreateVolume is called, and no two volumes share one, although the ID   *)
(* is a text joined from parts.                                            *)
THEOREM OneID == OneRemote => (Spec => []OneIDEach)
<1> SUFFICES ASSUME OneRemote PROVE Spec => []OneIDEach
  OBVIOUS
<1>1. ASSUME ClaimInv PROVE OneIDEach
  <2>1. ASSUME NEW c \in Claims PROVE Cardinality({v.id : v \in answers[c]}) =< 1
    <3>1. PICK r : Values(Params[c.class], "remote") = {r}
      BY ClaimsAssumption DEF OneRemote
    <3> DEFINE id == IF r = <<>> THEN c.volume ELSE r \o <<"#">> \o c.volume
    <3>2. ASSUME NEW v \in answers[c] PROVE v.id = id
      <4>1. PICK t \in Values(Params[c.class], "remotepath") : v = Answered(c, r, t)
        BY <1>1, <3>1 DEF ClaimInv, AnswersFrom
      <4>2. v.id = volumeID(r, replaceWithMap(t, c), c)
        BY <4>1 DEF Answered
      <4>. QED
        BY <4>2 DEF volumeID
    <3> HIDE DEF id
    <3>3. {v.id : v \in answers[c]} \subseteq {id}
      BY <3>2
    <3>4. IsFiniteSet({id}) /\ Cardinality({id}) = 1
      BY FS_Singleton
    <3>. QED
      BY <3>3, <3>4, FS_Subset
  <2>2. ASSUME NEW c \in Claims, NEW d \in Claims, NEW v \in answers[c], NEW w \in answers[d],
               v.id = w.id
        PROVE  c = d
    <3>1. PICK r \in Values(Params[c.class], "remote"),
               t \in Values(Params[c.class], "remotepath") : v = Answered(c, r, t)
      BY <1>1 DEF ClaimInv, AnswersFrom
    <3>2. PICK q \in Values(Params[d.class], "remote"),
               u \in Values(Params[d.class], "remotepath") : w = Answered(d, q, u)
      BY <1>1 DEF ClaimInv, AnswersFrom
    <3>3. r \in Text /\ q \in Text
      BY ClaimsAssumption, ValuesType
    <3>4. v.id = volumeID(r, replaceWithMap(t, c), c) /\ w.id = volumeID(q, replaceWithMap(u, d), d)
      BY <3>1, <3>2 DEF Answered
    <3>. QED
      BY <2>2, <3>3, <3>4, IDsApart
  <2>. QED
    BY <2>1, <2>2 DEF OneIDEach
<1>. QED
  BY <1>1, AlwaysClaims, PTL
-----------------------------------------------------------------------------
(* What the node finds.                                                    *)

(* What the node reads of a volume, other than the path: the class's,      *)
(* else the secret's.                                                      *)
Given(l, k) == Get(mergeVolumeParameters(Secret[l], Params[l]), k)

LEMMA ContextKeeps ==
  ASSUME NEW l \in DOMAIN Params, NEW path, NEW k, k # "remotePath"
  PROVE  Get(mergeVolumeParameters(Secret[l], volumeContext(Params[l], path)), k) = Given(l, k)
  BY DEF Given, Get, mergeVolumeParameters, volumeContext

LEMMA ContextPath ==
  ASSUME NEW l \in DOMAIN Params, NEW path
  PROVE  Get(mergeVolumeParameters(Secret[l], volumeContext(Params[l], path)), "remotePath")
            = IF path = <<>> THEN Given(l, "remotePath") ELSE path
  BY DEF Given, Get, mergeVolumeParameters, volumeContext

(* What is mounted for a claim, from the template CreateVolume took.       *)
LEMMA Mounted ==
  ASSUME ClaimInv, NEW c \in Claims, published[c] # None
  PROVE  \E t \in Values(Params[c.class], "remotepath") :
            LET path == replaceWithMap(t, c) IN
            published[c] =
                IF \/ Given(c.class, "remote") = <<>>
                   \/ Given(c.class, "configData") = <<>> /\ Given(c.class, "remoteType") = <<>>
                THEN Refused
                ELSE Given(c.class, "remote") \o <<":">> \o
                        (IF path = <<>> THEN Given(c.class, "remotePath") ELSE path)
<1>1. published[c] = FsPath(c, pv[c]) /\ pv[c] \in answers[c] /\ c.class \in DOMAIN Params
  BY ClaimsAssumption DEF ClaimInv, TypeOK, PublishedFrom
<1>2. PICK r \in Values(Params[c.class], "remote"),
           t \in Values(Params[c.class], "remotepath") : pv[c] = Answered(c, r, t)
  BY <1>1 DEF ClaimInv, AnswersFrom
<1> DEFINE path == replaceWithMap(t, c)
           params == mergeVolumeParameters(Secret[c.class], volumeContext(Params[c.class], path))
<1>3. pv[c].context = volumeContext(Params[c.class], path)
  BY <1>2 DEF Answered
<1>4. /\ Get(params, "remote") = Given(c.class, "remote")
      /\ Get(params, "configData") = Given(c.class, "configData")
      /\ Get(params, "remoteType") = Given(c.class, "remoteType")
  BY <1>1, ContextKeeps
<1>5. Get(params, "remotePath") = IF path = <<>> THEN Given(c.class, "remotePath") ELSE path
  BY <1>1, ContextPath
<1> HIDE DEF path
<1>6. published[c] = IF \/ Get(params, "remote") = <<>>
                        \/ Get(params, "configData") = <<>> /\ Get(params, "remoteType") = <<>>
                     THEN Refused
                     ELSE Get(params, "remote") \o <<":">> \o Get(params, "remotePath")
  BY <1>1, <1>3 DEF FsPath, buildFsPath
<1> HIDE DEF params
<1>. QED
  BY <1>4, <1>5, <1>6 DEF path

(* A class spells remote only as the node reads it, and its remote and its *)
(* path are not blank; the remote has no blanks around it.                 *)
SpelledOnce ==
    \A l \in DOMAIN Params : \A k \in DOMAIN Params[l] :
        /\ Folded[k] = "remote" =>
            k = "remote" /\ Params[l][k] # <<>> /\ TrimSpace(Params[l][k]) = Params[l][k]
        /\ Folded[k] = "remotepath" => TrimSpace(Params[l][k]) # <<>>

(* A volume of such a class is mounted from the class's remote and path,   *)
(* with the claim's own metadata, and from the secret's where the class is *)
(* silent (CreateVolume, replaceWithMap, mergeVolumeParameters,            *)
(* buildFsPath).                                                           *)
THEOREM MountedAsClaimed == SpelledOnce => (Spec => []MountsTheClaim)
<1> SUFFICES ASSUME SpelledOnce PROVE Spec => []MountsTheClaim
  OBVIOUS
<1>1. ASSUME ClaimInv PROVE MountsTheClaim
  <2> SUFFICES ASSUME NEW c \in Claims, published[c] \notin {None, Refused}
               PROVE  \E r \in Wanted(c, "remote", "remote"),
                         t \in Wanted(c, "remotepath", "remotePath") :
                        published[c] = r \o <<":">> \o
                            (IF Values(Params[c.class], "remotepath") = {<<>>}
                             THEN t ELSE replaceWithMap(t, c))
    BY DEF MountsTheClaim
  <2> DEFINE l == c.class
  <2>0. l \in DOMAIN Params
    BY ClaimsAssumption
  <2>1. PICK t \in Values(Params[l], "remotepath") :
            published[c] = Given(l, "remote") \o <<":">> \o
                (IF replaceWithMap(t, c) = <<>> THEN Given(l, "remotePath")
                 ELSE replaceWithMap(t, c))
    BY <1>1, Mounted
  <2>2. Given(l, "remote") \in Wanted(c, "remote", "remote")
    <3>1. CASE \A k \in DOMAIN Params[l] : Folded[k] # "remote"
      <4>1. Values(Params[l], "remote") = {<<>>}
        BY <3>1 DEF Values
      <4>2. "remote" \notin DOMAIN Params[l]
        BY <2>0, <3>1, ClassesAssumption
      <4>3. Given(l, "remote") = Get(Secret[l], "remote")
        BY <4>2 DEF Given, Get, mergeVolumeParameters
      <4>. QED
        BY <4>1, <4>3 DEF Wanted
    <3>2. CASE \E k \in DOMAIN Params[l] : Folded[k] = "remote"
      <4>1. /\ "remote" \in DOMAIN Params[l] /\ Folded["remote"] = "remote"
            /\ Params[l]["remote"] # <<>>
            /\ TrimSpace(Params[l]["remote"]) = Params[l]["remote"]
        BY <2>0, <3>2 DEF SpelledOnce
      <4>2. Given(l, "remote") = Params[l]["remote"]
        BY <4>1 DEF Given, Get, mergeVolumeParameters
      <4>3. Params[l]["remote"] \in Values(Params[l], "remote")
        BY <4>1 DEF Values
      <4>. QED
        BY <4>1, <4>2, <4>3 DEF Wanted
    <3>. QED
      BY <3>1, <3>2
  <2>3. CASE \A k \in DOMAIN Params[l] : Folded[k] # "remotepath"
    <3>1. Values(Params[l], "remotepath") = {<<>>}
      BY <2>3 DEF Values
    <3>2. "remotePath" \notin DOMAIN Params[l]
      BY <2>0, <2>3, ClassesAssumption
    <3>3. Given(l, "remotePath") = Get(Secret[l], "remotePath")
      BY <3>2 DEF Given, Get, mergeVolumeParameters
    <3>4. replaceWithMap(t, c) = <<>>
      BY <3>1, ReplaceType, TextMarks
    <3>5. Given(l, "remotePath") \in Wanted(c, "remotepath", "remotePath")
      BY <3>1, <3>3 DEF Wanted
    <3>. QED
      BY <2>1, <2>2, <3>1, <3>4, <3>5
  <2>4. CASE \E k \in DOMAIN Params[l] : Folded[k] = "remotepath"
    <3>1. /\ <<>> \notin Values(Params[l], "remotepath")
          /\ Values(Params[l], "remotepath") # {<<>>}
      BY <2>0, <2>4 DEF SpelledOnce, Values
    <3>2. t \in Text /\ t # <<>>
      BY <2>0, <3>1, ValuesType
    <3>3. replaceWithMap(t, c) # <<>>
      BY <3>2, ReplaceType
    <3>4. t \in Wanted(c, "remotepath", "remotePath")
      BY <3>1 DEF Wanted
    <3>. QED
      BY <2>1, <2>2, <3>1, <3>3, <3>4
  <2>. QED
    BY <2>3, <2>4
<1>. QED
  BY <1>1, AlwaysClaims, PTL
-----------------------------------------------------------------------------
(* The directories of claims.                                              *)

Plain(v) == \A i \in DOMAIN v : v[i] \notin {NsVar, NmVar, PvVar}

LEMMA VariablesDiffer ==
  /\ NsVar # NmVar /\ NsVar # PvVar /\ NmVar # PvVar
  /\ "/" \notin {NsVar, NmVar, PvVar}
  BY Zenon DEF NsVar, NmVar, PvVar

(* What becomes of a token of a template.                                  *)
Part(t, c, i) == CASE t[i] = NsVar -> c.namespace
                   [] t[i] = NmVar -> c.name
                   [] t[i] = PvVar -> c.volume
                   [] OTHER -> <<t[i]>>

LEMMA GrowSubSeq ==
  ASSUME NEW v \in Text, NEW i \in 2 .. Len(v)
  PROVE  SubSeq(v, 1, i - 1) \o <<v[i]>> = SubSeq(v, 1, i)
  BY DEF Text

LEMMA OneToken ==
  ASSUME NEW S, NEW x \in S
  PROVE  <<x>> \in Seq(S) /\ <<x>> # <<>> /\ Len(<<x>>) = 1 /\ <<x>>[1] = x
  OBVIOUS

LEMMA SameText ==
  ASSUME NEW S, NEW a \in Seq(S), NEW b \in Seq(S), Len(a) = Len(b),
         \A i \in 1 .. Len(a) : a[i] = b[i]
  PROVE  a = b
  OBVIOUS

LEMMA FirstSubSeq == ASSUME NEW v \in Text, Len(v) > 0 PROVE SubSeq(v, 1, 1) = <<v[1]>>
<1> DEFINE a == SubSeq(v, 1, 1)
           b == <<v[1]>>
<1>1. v[1] \in STRING
  BY DEF Text
<1>2. a \in Seq(STRING) /\ Len(a) = 1 /\ a[1] = v[1]
  BY DEF Text
<1>3. b \in Seq(STRING) /\ Len(b) = 1 /\ b[1] = v[1]
  BY <1>1, OneToken
<1> HIDE DEF a, b
<1>4. \A i \in 1 .. Len(a) : a[i] = b[i]
  BY <1>2, <1>3
<1>5. a = b
  BY <1>2, <1>3, <1>4, SameText
<1>. QED
  BY <1>5 DEF a, b

(* The text of a template as far as it has no variable is kept.            *)
LEMMA PlainPrefix ==
  ASSUME NEW c \in Claims, NEW pre \in Text, Plain(pre), NEW rest \in Text, rest # <<>>
  PROVE  \E f : /\ replaceWithMap(pre \o rest, c) = f[Len(pre) + Len(rest)]
                /\ f[Len(pre) + 1] = pre \o Part(pre \o rest, c, Len(pre) + 1)
                /\ \A i \in Len(pre) + 2 .. Len(pre) + Len(rest) :
                    f[i] = f[i - 1] \o Part(pre \o rest, c, i)
<1> DEFINE t == pre \o rest
           n == Len(pre)
           parts == [i \in DOMAIN t |-> Part(t, c, i)]
<1>1. /\ t \in Text /\ Len(t) = n + Len(rest) /\ n \in Nat /\ Len(rest) \in Nat /\ Len(rest) > 0
      /\ \A i \in 1 .. n : t[i] = pre[i]
      /\ DOMAIN t = 1 .. Len(t) /\ DOMAIN pre = 1 .. n
  BY DEF Text
<1> HIDE DEF t, n
<1>2. c.namespace \in Text /\ c.name \in Text /\ c.volume \in Text
  BY ClaimsAssumption, NameType
<1>3. \A i \in DOMAIN t : Part(t, c, i) \in Text
  <2>1. \A i \in DOMAIN t : <<t[i]>> \in Text
    BY <1>1 DEF Text
  <2>. QED
    BY <1>2, <2>1 DEF Part
<1>4. parts \in Seq(Text) /\ Len(parts) = Len(t) /\ parts # <<>>
  <2>1. parts \in Seq(Text)
    BY <1>1, <1>3
  <2>2. DOMAIN parts = 1 .. Len(t) /\ Len(t) \in Nat /\ Len(t) > 0
    BY <1>1
  <2> HIDE DEF parts
  <2>3. Len(parts) = Len(t)
    BY <2>1, <2>2
  <2>. QED
    BY <2>1, <2>2, <2>3
<1>5. replaceWithMap(t, c) = FlattenSeq(parts)
  BY DEF replaceWithMap, Part
<1>6. \A i \in 1 .. Len(t) : parts[i] = Part(t, c, i)
  BY <1>1
<1> HIDE DEF parts
<1>7. PICK f : /\ FlattenSeq(parts) = f[Len(parts)]
               /\ f[1] = parts[1]
               /\ \A i \in 2 .. Len(parts) : f[i] = f[i - 1] \o parts[i]
  BY <1>4, Flattened
<1>8. ASSUME NEW i \in 1 .. n PROVE parts[i] = <<pre[i]>>
  <2>1. i \in 1 .. Len(t) /\ t[i] = pre[i] /\ pre[i] \notin {NsVar, NmVar, PvVar}
    BY <1>1 DEF Plain
  <2>2. Part(t, c, i) = <<t[i]>>
    BY <2>1 DEF Part
  <2>. QED
    BY <1>6, <2>1, <2>2
<1> DEFINE Bad == {i \in 1 .. n : f[i] # SubSeq(pre, 1, i)}
<1>9. ASSUME Bad # {} PROVE FALSE
  <2>0. Bad \in SUBSET Nat
    OBVIOUS
  <2>1. PICK i \in Bad : \A j \in Bad : i <= j
    <3> HIDE DEF Bad
    <3>. QED
      BY <1>9, <2>0, LeastNumber
  <2>2. CASE i = 1
    <3>0. Len(pre) > 0
      BY <1>1, <2>2 DEF n
    <3>1. SubSeq(pre, 1, 1) = <<pre[1]>>
      <4> HIDE DEF Bad
      <4>. QED
        BY <3>0, FirstSubSeq
    <3>. QED
      BY <1>7, <1>8, <2>1, <2>2, <3>1
  <2>3. CASE i # 1
    <3>1. i - 1 \in 1 .. n /\ i \in 2 .. n /\ i \in 2 .. Len(parts) /\ ~(i <= i - 1)
      BY <1>1, <1>4, <2>3
    <3>2. i - 1 \notin Bad
      <4> HIDE DEF Bad
      <4>. QED
        BY <2>1, <3>1
    <3>3. f[i] = SubSeq(pre, 1, i - 1) \o <<pre[i]>>
      BY <1>7, <1>8, <3>1, <3>2
    <3>4. f[i] = SubSeq(pre, 1, i)
      BY <3>1, <3>3, GrowSubSeq DEF n
    <3>. QED
      BY <2>1, <3>4
  <2>. QED
    BY <2>2, <2>3
<1>10. f[n + 1] = pre \o Part(t, c, n + 1)
  <2>1. n + 1 \in 1 .. Len(t) /\ parts[n + 1] = Part(t, c, n + 1) /\ Part(t, c, n + 1) \in Text
    BY <1>1, <1>3, <1>6
  <2>2. CASE n = 0
    <3>1. pre = <<>>
      BY <2>2 DEF n, Text
    <3>2. <<>> \o Part(t, c, 1) = Part(t, c, 1)
      BY <2>1, <2>2 DEF Text
    <3>. QED
      BY <1>7, <2>1, <2>2, <3>1, <3>2
  <2>3. CASE n # 0
    <3>1. n \in 1 .. n /\ n + 1 \in 2 .. Len(parts) /\ (n + 1) - 1 = n
      BY <1>1, <1>4, <2>1, <2>3
    <3>2. f[n] = SubSeq(pre, 1, n)
      BY <1>9, <3>1
    <3>3. SubSeq(pre, 1, n) = pre
      BY DEF n, Text
    <3>. QED
      BY <1>7, <2>1, <3>1, <3>2, <3>3
  <2>. QED
    BY <2>2, <2>3
<1>11. ASSUME NEW i \in n + 2 .. n + Len(rest) PROVE f[i] = f[i - 1] \o Part(t, c, i)
  <2>1. i \in 2 .. Len(parts) /\ i \in 1 .. Len(t)
    BY <1>1, <1>4
  <2>2. f[i] = f[i - 1] \o parts[i] /\ parts[i] = Part(t, c, i)
    BY <1>6, <1>7, <2>1
  <2>. QED
    BY <2>2
<1>12. replaceWithMap(t, c) = f[n + Len(rest)]
  BY <1>1, <1>4, <1>5, <1>7
<1>. QED
  BY <1>10, <1>11, <1>12 DEF t, n

PairPath(a, s, n) == a \o s \o <<"/">> \o n

(* The two templates that keep claims apart.                               *)
LEMMA NestedPath ==
  ASSUME NEW c \in Claims, NEW pre \in Text, Plain(pre)
  PROVE  replaceWithMap(pre \o <<NsVar, "/", NmVar>>, c) = PairPath(pre, c.namespace, c.name)
<1> DEFINE rest == <<NsVar, "/", NmVar>>
           t == pre \o rest
           n == Len(pre)
<1>0. NsVar \in STRING /\ NmVar \in STRING /\ "/" \in STRING
  BY MarksAssumption
<1>1. rest \in Text /\ rest # <<>> /\ Len(rest) = 3 /\ n \in Nat
  BY <1>0 DEF Text
<1>2. t[n + 1] = NsVar /\ t[n + 2] = "/" /\ t[n + 3] = NmVar
  BY <1>1 DEF Text
<1> HIDE DEF t, n, rest
<1>3. /\ Part(t, c, n + 1) = c.namespace /\ Part(t, c, n + 2) = <<"/">>
      /\ Part(t, c, n + 3) = c.name
  BY <1>2, VariablesDiffer DEF Part
<1>4. PICK f : /\ replaceWithMap(t, c) = f[n + Len(rest)]
               /\ f[n + 1] = pre \o Part(t, c, n + 1)
               /\ \A i \in n + 2 .. n + Len(rest) : f[i] = f[i - 1] \o Part(t, c, i)
  BY <1>1, PlainPrefix DEF t, n
<1>5. n + 2 \in n + 2 .. n + 3 /\ n + 3 \in n + 2 .. n + 3
      /\ (n + 2) - 1 = n + 1 /\ (n + 3) - 1 = n + 2
  BY <1>1
<1>6. f[n + 2] = f[n + 1] \o Part(t, c, n + 2) /\ f[n + 3] = f[n + 2] \o Part(t, c, n + 3)
  BY <1>1, <1>4, <1>5
<1>7. replaceWithMap(t, c) = pre \o c.namespace \o <<"/">> \o c.name
  BY <1>1, <1>3, <1>4, <1>6
<1>. QED
  BY <1>7 DEF t, rest, PairPath

LEMMA VolumePath ==
  ASSUME NEW c \in Claims, NEW pre \in Text, Plain(pre)
  PROVE  replaceWithMap(pre \o <<PvVar>>, c) = pre \o c.volume
<1> DEFINE rest == <<PvVar>>
           t == pre \o rest
           n == Len(pre)
<1>0. PvVar \in STRING
  BY MarksAssumption
<1>1. rest \in Text /\ rest # <<>> /\ Len(rest) = 1 /\ n \in Nat
  <2>1. n \in Nat
    BY DEF Text
  <2>2. rest \in Seq(STRING) /\ rest # <<>> /\ Len(rest) = 1
    BY <1>0, OneToken
  <2> HIDE DEF rest
  <2>. QED
    BY <2>1, <2>2 DEF Text
<1>2. t[n + 1] = PvVar
  BY <1>1 DEF Text
<1> HIDE DEF t, n, rest
<1>3. Part(t, c, n + 1) = c.volume
  BY <1>2, VariablesDiffer DEF Part
<1>4. PICK f : /\ replaceWithMap(t, c) = f[n + Len(rest)]
               /\ f[n + 1] = pre \o Part(t, c, n + 1)
               /\ \A i \in n + 2 .. n + Len(rest) : f[i] = f[i - 1] \o Part(t, c, i)
  BY <1>1, PlainPrefix DEF t, n
<1>. QED
  BY <1>1, <1>3, <1>4 DEF t, rest

LEMMA NameHasNoSlash ==
  ASSUME NEW n \in Name
  PROVE  n \in Text /\ Len(n) \in Nat /\ \A i \in 1 .. Len(n) : n[i] # "/"
  BY NameType DEF Name, Text

LEMMA JoinParts ==
  ASSUME NEW a \in Text, NEW b \in Text
  PROVE  /\ a \o b \in Text /\ Len(a \o b) = Len(a) + Len(b) /\ Len(a) \in Nat /\ Len(b) \in Nat
         /\ \A i \in 1 .. Len(a) : (a \o b)[i] = a[i]
         /\ \A i \in 1 .. Len(b) : (a \o b)[Len(a) + i] = b[i]
  BY DEF Text

LEMMA Joined ==
  \A a, b, d \in Text : a \o (b \o d) = (a \o b) \o d
<1> SUFFICES ASSUME NEW a \in Text, NEW b \in Text, NEW d \in Text
             PROVE  a \o (b \o d) = (a \o b) \o d
  OBVIOUS
<1> DEFINE x == a \o (b \o d)
           y == (a \o b) \o d
<1>1. x \in Seq(STRING) /\ y \in Seq(STRING) /\ Len(x) = Len(y)
  BY DEF Text
<1>2. \A i \in 1 .. Len(x) : x[i] = y[i]
  BY DEF Text
<1> HIDE DEF x, y
<1>3. x = y
  BY <1>1, <1>2, SameText
<1>. QED
  BY <1>3 DEF x, y

PathJoins(a, b, s, n) == a \o PairPath(b, s, n) = PairPath(a \o b, s, n)

LEMMA JoinedPath ==
  ASSUME NEW a \in Text, NEW b \in Text, NEW s \in Text, NEW n \in Text
  PROVE  PathJoins(a, b, s, n)
<1> DEFINE x == a \o (b \o s \o <<"/">> \o n)
           y == (a \o b) \o s \o <<"/">> \o n
<1>1. x \in Seq(STRING) /\ y \in Seq(STRING) /\ Len(x) = Len(y)
  BY TextMarks DEF Text
<1>2. \A i \in 1 .. Len(x) : x[i] = y[i]
  BY TextMarks DEF Text
<1> HIDE DEF x, y
<1>3. x = y
  BY <1>1, <1>2, SameText
<1>. QED
  BY <1>3 DEF x, y, PathJoins, PairPath

(* What lies inside a directory agrees with its path, and a "/" follows.   *)
LEMMA InsideAgrees ==
  ASSUME NEW x \in Text, NEW y \in Text, Inside(x, y)
  PROVE  /\ Len(y) <= Len(x) /\ \A i \in 1 .. Len(y) : x[i] = y[i]
         /\ x = y \/ (Len(y) + 1 <= Len(x) /\ x[Len(y) + 1] = "/")
<1> DEFINE z == y \o <<"/">>
<1>1. CASE x = y
  BY <1>1 DEF Text
<1>2. CASE IsPrefix(z, x)
  <2>1. /\ z \in Text /\ Len(z) = Len(y) + 1 /\ Len(y) \in Nat /\ Len(x) \in Nat
        /\ \A i \in 1 .. Len(y) : z[i] = y[i]
        /\ z[Len(y) + 1] = "/"
    BY TextMarks DEF Text
  <2> HIDE DEF z
  <2>2. Len(z) <= Len(x) /\ SubSeq(z, 1, Len(z)) = SubSeq(x, 1, Len(z))
    BY <1>2 DEF IsPrefix
  <2>3. \A i \in 1 .. Len(z) : SubSeq(z, 1, Len(z))[i] = z[i] /\ SubSeq(x, 1, Len(z))[i] = x[i]
    BY <2>1, <2>2 DEF Text
  <2>4. \A i \in 1 .. Len(z) : x[i] = z[i]
    BY <2>2, <2>3
  <2>. QED
    BY <2>1, <2>2, <2>4
<1>. QED
  BY <1>1, <1>2 DEF Inside

(* Directories that end in a name lie apart.                               *)
LEMMA NamesInside ==
  ASSUME NEW a \in Text, NEW m \in Name, NEW n \in Name, Inside(a \o m, a \o n)
  PROVE  m = n
<1> DEFINE x == a \o m
           y == a \o n
<1>1. /\ m \in Text /\ n \in Text /\ Len(m) \in Nat /\ Len(n) \in Nat /\ Len(a) \in Nat
      /\ \A i \in 1 .. Len(m) : m[i] # "/"
  BY NameHasNoSlash DEF Text
<1>2. /\ x \in Text /\ Len(x) = Len(a) + Len(m)
      /\ \A i \in 1 .. Len(m) : x[Len(a) + i] = m[i]
  BY <1>1, JoinParts
<1>3. /\ y \in Text /\ Len(y) = Len(a) + Len(n)
      /\ \A i \in 1 .. Len(n) : y[Len(a) + i] = n[i]
  BY <1>1, JoinParts
<1>4. Inside(x, y)
  OBVIOUS
<1> HIDE DEF x, y
<1>5. x = y
  <2>1. ASSUME Len(y) + 1 <= Len(x), x[Len(y) + 1] = "/" PROVE FALSE
    <3>1. Len(n) + 1 \in 1 .. Len(m) /\ Len(y) + 1 = Len(a) + (Len(n) + 1)
      BY <1>1, <1>2, <1>3, <2>1
    <3>2. x[Len(a) + (Len(n) + 1)] = m[Len(n) + 1] /\ m[Len(n) + 1] # "/"
      BY <1>1, <1>2, <3>1
    <3>. QED
      BY <2>1, <3>1, <3>2
  <2>. QED
    BY <1>2, <1>3, <1>4, <2>1, InsideAgrees
<1>6. Len(m) = Len(n) /\ \A i \in 1 .. Len(m) : m[i] = n[i]
  BY <1>1, <1>2, <1>3, <1>5
<1>. QED
  BY <1>1, <1>6, SameText DEF Text

(* Directories that end in a namespace and a name lie apart.               *)
LEMMA PairsInside ==
  ASSUME NEW a \in Text, NEW s1 \in Name, NEW n1 \in Name, NEW s2 \in Name, NEW n2 \in Name,
         Inside(PairPath(a, s1, n1), PairPath(a, s2, n2))
  PROVE  s1 = s2 /\ n1 = n2
<1> DEFINE x == a \o s1 \o <<"/">> \o n1
           y == a \o s2 \o <<"/">> \o n2
           b == Len(a)
<1>1. /\ s1 \in Text /\ n1 \in Text /\ s2 \in Text /\ n2 \in Text /\ b \in Nat
      /\ Len(s1) \in Nat /\ Len(n1) \in Nat /\ Len(s2) \in Nat /\ Len(n2) \in Nat
      /\ \A i \in 1 .. Len(s1) : s1[i] # "/"
      /\ \A i \in 1 .. Len(s2) : s2[i] # "/"
  BY NameHasNoSlash DEF Text
<1>2. ASSUME NEW s \in Text, NEW n \in Text
      PROVE  LET z == a \o s \o <<"/">> \o n IN
             /\ z \in Text /\ Len(z) = b + Len(s) + 1 + Len(n)
             /\ \A i \in 1 .. Len(s) : z[b + i] = s[i]
             /\ z[b + Len(s) + 1] = "/"
             /\ z = (a \o s \o <<"/">>) \o n
  BY TextMarks DEF Text
<1>3. /\ x \in Text /\ Len(x) = b + Len(s1) + 1 + Len(n1)
      /\ \A i \in 1 .. Len(s1) : x[b + i] = s1[i]
      /\ x[b + Len(s1) + 1] = "/"
  BY <1>1, <1>2
<1>4. /\ y \in Text /\ Len(y) = b + Len(s2) + 1 + Len(n2)
      /\ \A i \in 1 .. Len(s2) : y[b + i] = s2[i]
      /\ y[b + Len(s2) + 1] = "/"
  BY <1>1, <1>2
<1>5. Inside(x, y)
  BY DEF PairPath
<1> HIDE DEF x, y, b
<1>6. Len(y) <= Len(x) /\ \A i \in 1 .. Len(y) : x[i] = y[i]
  BY <1>3, <1>4, <1>5, InsideAgrees
<1>7. ~(Len(s1) < Len(s2))
  <2>1. ASSUME Len(s1) < Len(s2) PROVE FALSE
    <3>1. Len(s1) + 1 \in 1 .. Len(s2) /\ b + Len(s1) + 1 \in 1 .. Len(y)
          /\ b + Len(s1) + 1 = b + (Len(s1) + 1)
      BY <1>1, <1>4, <2>1
    <3>2. y[b + (Len(s1) + 1)] = s2[Len(s1) + 1] /\ s2[Len(s1) + 1] # "/"
      BY <1>1, <1>4, <3>1
    <3>. QED
      BY <1>3, <1>6, <3>1, <3>2
  <2>. QED
    BY <2>1
<1>8. ~(Len(s2) < Len(s1))
  <2>1. ASSUME Len(s2) < Len(s1) PROVE FALSE
    <3>1. Len(s2) + 1 \in 1 .. Len(s1) /\ b + Len(s2) + 1 \in 1 .. Len(y)
          /\ b + Len(s2) + 1 = b + (Len(s2) + 1)
      BY <1>1, <1>4, <2>1
    <3>2. x[b + (Len(s2) + 1)] = s1[Len(s2) + 1] /\ s1[Len(s2) + 1] # "/"
      BY <1>1, <1>3, <3>1
    <3>. QED
      BY <1>4, <1>6, <3>1, <3>2
  <2>. QED
    BY <2>1
<1>9. Len(s1) = Len(s2)
  BY <1>1, <1>7, <1>8
<1>10. \A i \in 1 .. Len(s1) : s1[i] = s2[i]
  <2>1. \A i \in 1 .. Len(s1) : b + i \in 1 .. Len(y)
    BY <1>1, <1>4, <1>9
  <2>. QED
    BY <1>3, <1>4, <1>6, <1>9, <2>1
<1>11. s1 = s2
  BY <1>1, <1>9, <1>10, SameText DEF Text
<1> DEFINE d == a \o s1 \o <<"/">>
<1>12. d \in Text
  BY <1>1, TextJoin, TextMarks
<1>13. Inside(d \o n1, d \o n2)
  BY <1>5, <1>11 DEF x, y
<1> HIDE DEF d
<1>. QED
  BY <1>11, <1>12, <1>13, NamesInside
-----------------------------------------------------------------------------
(* Claims of a class whose template keeps them apart have directories      *)
(* apart from each other while they exist together, though replaceWithMap  *)
(* joins texts of which one may begin with another.                        *)
THEOREM DirectoriesApart == Spec => []OwnDirectory
<1>1. ASSUME ClaimInv PROVE OwnDirectory
  <2> SUFFICES ASSUME NEW c \in Claims, NEW d \in Claims, Together(c, d), c.class = d.class,
                      Separates(c.class), published[c] \notin {None, Refused}, published[d] \notin {None, Refused},
                      Inside(published[c], published[d])
               PROVE  FALSE
    BY DEF OwnDirectory
  <2> DEFINE l == c.class
             rem == Given(l, "remote") \o <<":">>
  <2>0. /\ c # d /\ l \in DOMAIN Params
        /\ c.namespace \in Name /\ c.name \in Name /\ c.volume \in Name
        /\ d.namespace \in Name /\ d.name \in Name /\ d.volume \in Name
    BY ClaimsAssumption DEF Together
  <2>2. PICK t \in Values(Params[l], "remotepath") :
            Values(Params[l], "remotepath") = {t} /\ KeepsApart(t)
    BY DEF Separates
  <2>01. t \in Text
    BY <2>0, ValuesType
  <2>1. PICK pre \in Text :
            Plain(pre) /\ (t = pre \o <<NsVar, "/", NmVar>> \/ t = pre \o <<PvVar>>)
    <3>1. PICK n \in 0 .. Len(t) :
            /\ Plain(SubSeq(t, 1, n))
            /\ t \in {SubSeq(t, 1, n) \o <<NsVar, "/", NmVar>>, SubSeq(t, 1, n) \o <<PvVar>>}
      BY <2>2 DEF KeepsApart, Plain
    <3>2. SubSeq(t, 1, n) \in Text
      BY <2>01 DEF Text
    <3>. QED
      BY <3>1, <3>2
  <2>3. t \in Text /\ t # <<>>
    <3>1. t \in Text
      BY <2>01
    <3>2. pre \o <<NsVar, "/", NmVar>> # <<>> /\ pre \o <<PvVar>> # <<>>
      BY DEF Text
    <3>. QED
      BY <2>1, <3>1, <3>2
  <2>4. ASSUME NEW e \in {c, d} PROVE published[e] = rem \o replaceWithMap(t, e)
    <3>1. e \in Claims /\ e.class = l /\ published[e] \notin {None, Refused}
      OBVIOUS
    <3>2. replaceWithMap(t, e) # <<>>
      BY <2>3, <3>1, ReplaceType
    <3>. QED
      BY <1>1, <2>2, <3>1, <3>2, Mounted
  <2>5. rem \in Text
    <3>1. Given(l, "remote") \in Text
      BY <2>0, ClassesAssumption, TextMarks DEF Given, Get, mergeVolumeParameters, Text
    <3>. QED
      BY <3>1, TextJoin, TextMarks
  <2> HIDE DEF rem
  <2>6. Inside(rem \o replaceWithMap(t, c), rem \o replaceWithMap(t, d))
    BY <2>4
  <2>7. rem \o pre \in Text
    BY <2>5, TextJoin
  <2>8. CASE t = pre \o <<NsVar, "/", NmVar>>
    <3>0. /\ c.namespace \in Text /\ c.name \in Text
          /\ d.namespace \in Text /\ d.name \in Text
      BY <2>0, NameType
    <3>1. /\ replaceWithMap(t, c) = PairPath(pre, c.namespace, c.name)
          /\ replaceWithMap(t, d) = PairPath(pre, d.namespace, d.name)
      BY <2>1, <2>8, NestedPath
    <3>2. /\ rem \o replaceWithMap(t, c) = PairPath(rem \o pre, c.namespace, c.name)
          /\ rem \o replaceWithMap(t, d) = PairPath(rem \o pre, d.namespace, d.name)
      <4>1. PathJoins(rem, pre, c.namespace, c.name) /\ PathJoins(rem, pre, d.namespace, d.name)
        BY <2>5, <3>0, JoinedPath
      <4>. QED
        BY <3>1, <4>1 DEF PathJoins
    <3>3. Inside(PairPath(rem \o pre, c.namespace, c.name),
                 PairPath(rem \o pre, d.namespace, d.name))
      BY <2>6, <3>2
    <3>4. c.namespace = d.namespace /\ c.name = d.name
      BY <2>0, <2>7, <3>3, PairsInside
    <3>. QED
      BY <1>1, <2>0, <3>4 DEF ClaimInv, NamesApart, Together
  <2>9. CASE t = pre \o <<PvVar>>
    <3>1. /\ replaceWithMap(t, c) = pre \o c.volume
          /\ replaceWithMap(t, d) = pre \o d.volume
      BY <2>1, <2>9, VolumePath
    <3>2. Inside((rem \o pre) \o c.volume, (rem \o pre) \o d.volume)
      <4>0. c.volume \in Text /\ d.volume \in Text
        BY <2>0, NameType
      <4>1. /\ rem \o (pre \o c.volume) = (rem \o pre) \o c.volume
            /\ rem \o (pre \o d.volume) = (rem \o pre) \o d.volume
        BY <2>5, <4>0, Joined, ZenonT(30)
      <4>. QED
        BY <2>6, <3>1, <4>1, Zenon
    <3>3. c.volume = d.volume
      BY <2>0, <2>7, <3>2, NamesInside
    <3>. QED
      BY <2>0, <3>3, ClaimsAssumption
  <2>. QED
    BY <2>1, <2>8, <2>9
<1>. QED
  BY <1>1, AlwaysClaims, PTL
=============================================================================
