---------------------------- MODULE MCRecordTime ----------------------------
(***************************************************************************)
(* Instances of RecordTime for TLC.                                        *)
(***************************************************************************)
EXTENDS RecordTime

\* Every day of three years, the second of them a leap year (2015 to 2017).
MCDays == 0 .. 1095

\* Beijing, Sydney, India and New York.
MCZones == {800, 1000, 530, -500}
=============================================================================
