----------------------------- MODULE MCSchedule -----------------------------
(* Small instances of Schedule for TLC. *)
EXTENDS Schedule

OneAccess == {FullAccess}

ReserveAccess == {[control |-> FALSE, strTm |-> FALSE]}
=============================================================================
