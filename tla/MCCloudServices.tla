-------------------------- MODULE MCCloudServices --------------------------
(* Instances of CloudServices for TLC. *)
EXTENDS CloudServices

AllSettings == [useDb : BOOLEAN, useS3 : BOOLEAN, output : {"Pcap", "Socket"}]
=============================================================================
