------------------------------- MODULE FeltDb -------------------------------
(***************************************************************************)
(* The part of FeltDB that the stores of crates/combe-state rely on.        *)
(* FeltDB itself is a path dependency outside the repository, so this       *)
(* module is written from how work_feltdb.rs uses it and from               *)
(* docs/FELTDB_LOCAL_CONCURRENCY.md:                                        *)
(*                                                                          *)
(*  - every handle opened in one process shares one mutex-protected log, so *)
(*    each call (a get, a scan, an insert, an atomic transaction) is one    *)
(*    step and two calls of one operation may have other steps in between;  *)
(*  - a write, a plain insert as much as a transaction, appends one log     *)
(*    record and moves the authority revision (the stale-context test of    *)
(*    work_feltdb.rs relies on a plain insert moving it);                   *)
(*  - a record's version is the log sequence that wrote it last.            *)
(*                                                                          *)
(* MaxRevision bounds the length of the log in a model.                     *)
(***************************************************************************)
EXTENDS Naturals

CONSTANT MaxRevision

ASSUME MaxRevisionIsNat == MaxRevision \in Nat

VARIABLE revision

Revision == 0..MaxRevision

\* The version the records written by this step get.
Stamp == revision + 1

\* One record, single or transactional, is appended to the log.
LogWrite == revision < MaxRevision /\ revision' = Stamp
=============================================================================
