-------------------------------- MODULE Parts -------------------------------
(***************************************************************************)
(* The parts that work alone: the chunkers, the query parser and the       *)
(* caches share no state, so a behaviour is a use of one of them.          *)
(***************************************************************************)
EXTENDS Chunking, QueryParser, Cache

PartsInit == ChunkingInit /\ QueryInit /\ Init

NoChunking == phase = "choose" /\ tree = << >>
NoQuery == input = << >> /\ qphase = "given"

PartsNext ==
  \/ NoQuery /\ Init /\ ChunkingNext /\ UNCHANGED <<queryVars, vars>>
  \/ NoChunking /\ Init /\ QueryNext /\ UNCHANGED <<chunkVars, vars>>
  \/ NoChunking /\ NoQuery /\ Next /\ UNCHANGED <<chunkVars, queryVars>>

PartsSpec == PartsInit /\ [][PartsNext]_<<chunkVars, queryVars, vars>>

\* The type invariant of each of the three.
PartsTypeOK == ChunkingTypeOK /\ QueryTypeOK /\ TypeOK
=============================================================================
