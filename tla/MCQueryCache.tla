---------------------------- MODULE MCQueryCache ----------------------------
(* Instances of QueryCache for TLC. *)
EXTENDS QueryCache, TLC
CONSTANTS t1, t2, u1, u2, q1, q2, r1, r2, w1, w2

MCTables == {t1, t2}
MCKeys == {q1, q2}

(* q1 reads both tables (a relation), q2 only the second. *)
MCTablesOf == [k \in MCKeys |-> IF k = q1 THEN {t1, t2} ELSE {t2}]
MCReaders == {r1, r2}
MCKeyOf == [r \in MCReaders |-> IF r = r1 THEN q1 ELSE q2]
MCTagOf == [r \in MCReaders |-> IF r = r1 THEN u1 ELSE None]

(* w1 writes through the EntityManager, w2 in raw SQL. *)
MCWriters == {w1, w2}
MCWrites == [w \in MCWriters |-> IF w = w1 THEN {t1} ELSE {t2}]
MCRaw == {w2}
=============================================================================
