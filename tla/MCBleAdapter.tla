---------------------------- MODULE MCBleAdapter -----------------------------
(***************************************************************************)
(* BleAdapter on a small instance: two lines, which one connection may     *)
(* write one behind the other or two connections one each; a connect, a    *)
(* disconnect, another connect and disconnect; responses of one or two     *)
(* pieces, so that a confirmation can come before notify() returns both    *)
(* with and without more to send; a line written in two halves.            *)
(***************************************************************************)
EXTENDS BleAdapter
=============================================================================
