------------------------------ MODULE MCRelay ------------------------------
(***************************************************************************)
(* One session, over TCP and over UDP, with and without an idle timeout.   *)
(***************************************************************************)
EXTENDS Relay

MCDatagrams == <<1, 0>>
=============================================================================
