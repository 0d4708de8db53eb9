----------------------------- MODULE MCAuditSink -----------------------------
(***************************************************************************)
(* Instances of AuditSink for TLC: two or three writers, one or two sinks. *)
(***************************************************************************)
EXTENDS AuditSink, TLC

BothSinks == <<"file", "s3">>

FileOnly == <<"file">>

S3Only == <<"s3">>

WriterSymmetry == Permutations(Writers)
==============================================================================
