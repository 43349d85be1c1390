---------------------------- MODULE MCFrameParser ----------------------------
(***************************************************************************)
(* Bytes of three values, of which 2 is the start byte, and messages whose *)
(* frames hold it nowhere else: every byte of noise can be taken for a     *)
(* start, an id, a length of up to MaxPayload or a sum that happens to     *)
(* hold.                                                                   *)
(***************************************************************************)
EXTENDS FrameParser

MCMessages == {[id |-> 0, payload |-> <<>>], [id |-> 1, payload |-> <<>>],
               [id |-> 0, payload |-> <<1>>]}
=============================================================================
