---------------------------- MODULE MCMqProducer ----------------------------
(***************************************************************************)
(* A small instance of MqProducer: two publishers and one nsqd that comes  *)
(* and goes in nsqlookupd's answers.                                       *)
(***************************************************************************)
EXTENDS MqProducer

CONSTANTS a1, p1, p2

Lookups == {{}, {a1}}
=============================================================================
