--------------------------- MODULE MCVolumeStats ----------------------------
(* An instance of VolumeStats: the paths kubelet gives to two pods with    *)
(* an inline volume of one name, "data", and to a pod with a               *)
(* PersistentVolume. The inline volumes are different volumes and share a  *)
(* label.                                                                  *)
EXTENDS VolumeStats, TLC

PathOf(pod, name) == <<"", "pods", pod, "volumes", "kubernetes.io~csi", name, "mount">>

MCPath == [t1 |-> PathOf("p1", "data"), t2 |-> PathOf("p2", "data"),
           t3 |-> PathOf("p3", "pv1")]

MCVolumeOf == [t1 |-> "csi-1", t2 |-> "csi-2", t3 |-> "s3#pv1"]

MCRemoteOf == "csi-1" :> "s3" @@ "csi-2" :> "b2" @@ "s3#pv1" :> "s3"

MCStats == {[pending |-> 1, full |-> TRUE]}

(* Calls and scrapes write nothing the other reads: each is looked at      *)
(* without the other.                                                      *)
Apart == scrape.pc = "idle" \/ \A c \in Calls : call[c].pc = "statfs"
=============================================================================
