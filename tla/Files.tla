------------------------------- MODULE Files -------------------------------
(***************************************************************************)
(* Replacing a file: os.WriteFile to <path>.tmp, then os.Rename, as        *)
(* rules.writeAtomic, audit.SaveHistory and geo.Manager do.                *)
(*                                                                         *)
(* os.WriteFile opens with O_TRUNC and then writes, and the temporary name *)
(* is the same for every writer of a path.  live and tmp are what a path   *)
(* and its temporary hold.  fd[p] says where the file that p has opened is *)
(* by now: still the temporary, renamed over the path by another writer,   *)
(* or gone, replaced in its turn.                                          *)
(***************************************************************************)
EXTENDS Naturals, FiniteSets

CONSTANTS Absent, Empty, Torn

VARIABLES live, tmp, fd

disk == <<live, tmp, fd>>

Closed == <<"closed">>

\* A shorter text written over a longer one leaves the end of the longer.
Over(old, new) == IF old \in {Empty, new} THEN {new} ELSE {new, Torn}

OpenTmp(p, f) ==
    /\ tmp' = [tmp EXCEPT ![f] = Empty]
    /\ fd' = [fd EXCEPT ![p] = <<"tmp", f>>]
    /\ UNCHANGED live

WriteTmp(p, f, new) ==
    /\ fd' = [fd EXCEPT ![p] = Closed]
    /\ \/ /\ fd[p] = <<"tmp", f>>
          /\ \E c \in Over(tmp[f], new) : tmp' = [tmp EXCEPT ![f] = c]
          /\ UNCHANGED live
       \/ /\ fd[p] = <<"live", f>>
          /\ \E c \in Over(live[f], new) : live' = [live EXCEPT ![f] = c]
          /\ UNCHANGED tmp
       \/ /\ fd[p] = <<"gone", f>>
          /\ UNCHANGED <<live, tmp>>

\* ENOENT when another writer has renamed the temporary already.
RenameFails(f) == tmp[f] = Absent

Renamed(f, where) ==
    CASE where = <<"tmp", f>>  -> <<"live", f>>
      [] where = <<"live", f>> -> <<"gone", f>>
      [] OTHER -> where

Rename(f) ==
    /\ tmp[f] # Absent
    /\ live' = [live EXCEPT ![f] = tmp[f]]
    /\ tmp' = [tmp EXCEPT ![f] = Absent]
    /\ fd' = [p \in DOMAIN fd |-> Renamed(f, fd[p])]

\* The processes in P die: what they had open is closed, files stay.
CloseAll(P) == fd' = [p \in DOMAIN fd |-> IF p \in P THEN Closed ELSE fd[p]]
=============================================================================
