---------------------------- MODULE MCConfigLoad ----------------------------
(* Small instances of ConfigLoad for TLC.                                  *)
EXTENDS ConfigLoad, TLC

(* A crypt remote nested over an s3 remote. Two names normalise alike, and *)
(* "--" normalises to nothing.                                             *)
MCNormalOf == [n \in Names |->
    CASE n \in {"s3-region", "s3_region"} -> "s3_region"
      [] n = "crypt-password"             -> "crypt_password"
      [] n = "gid"                        -> "gid"
      [] OTHER                            -> None]

MCOptionOf == [T \in Types |-> [f \in Flags |->
    CASE T = "s3" /\ f = "s3_region"             -> "region"
      [] T = "crypt" /\ f = "crypt_password"     -> "password"
      [] OTHER                                   -> None]]

(* configData that leaves an option to the parameters in one section, and  *)
(* sets the same option, a password, in the other.                         *)
MCConfigData ==
    [base |-> [type |-> "s3", keys |-> {"endpoint"}],
     enc  |-> [type |-> "crypt", keys |-> {"remote", "password"}]]
=============================================================================
