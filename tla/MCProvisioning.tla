--------------------------- MODULE MCProvisioning ---------------------------
(* An instance of Provisioning: claims whose namespaces and names collide  *)
(* when they are joined by "-", and classes with the kinds of templates in *)
(* deploy/example: nested, flat, named by the volume, left to the secret.  *)
EXTENDS Provisioning, TLC

CONSTANT MaxClaims      \* claims made in a behaviour

Pvc(ns, n, v, cl) == [namespace |-> ns, name |-> n, volume |-> <<v>>, class |-> cl]

TeamA == <<"team", "-", "a">>
Team  == <<"team">>
DB    == <<"db">>
ADB   == <<"a", "-", "db">>

(* team-a/db, team/a-db, team/db, and team-a/db again after a deletion.    *)
MCClaims == {Pvc(TeamA, DB, "pvc-1", "nested"), Pvc(Team, ADB, "pvc-2", "nested"),
             Pvc(Team, DB, "pvc-3", "nested"), Pvc(TeamA, DB, "pvc-4", "nested"),
             Pvc(TeamA, DB, "pvc-5", "flat"), Pvc(Team, ADB, "pvc-6", "flat"),
             Pvc(Team, DB, "pvc-7", "volume"), Pvc(TeamA, DB, "pvc-8", "volume"),
             Pvc(Team, <<"x">>, "pvc-9", "secret")}

S3 == "remote" :> <<"s3">> @@ "configData" :> <<"[s3]">>

MCParams ==
    "nested" :> (S3 @@ "RemotePath" :> <<" ", "buckets", "/", NsVar, "/", NmVar, " ">>) @@
    "flat"   :> (S3 @@ "remotePath" :> <<NsVar, "-", NmVar>>) @@
    "volume" :> (S3 @@ "remotePath" :> <<"volumes", "/", PvVar>>) @@
    "secret" :> ("remoteType" :> <<"s3">>)

MCSecret ==
    [l \in DOMAIN MCParams |->
        IF l = "secret" THEN "remote" :> <<"sftp">> @@ "remotePath" :> <<"home">>
        ELSE "remotePath" :> <<"private">>]

MCFolded == [k \in {"remote", "remotePath", "RemotePath", "configData",
                    "remoteType"} |->
                CASE k \in {"remotePath", "RemotePath"} -> "remotepath"
                  [] k = "configData" -> "configdata"
                  [] k = "remoteType" -> "remotetype"
                  [] OTHER -> k]

FewClaims == Cardinality({c \in Claims : phase[c] # "none"}) <= MaxClaims
=============================================================================
