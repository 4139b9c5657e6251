--------------------------- MODULE MCIntegrityGate ---------------------------
(* Finite instances of IntegrityGate for TLC. *)
EXTENDS IntegrityGate

Left(d, b, m) == [disk |-> d, backup |-> b, marker |-> m, dead |-> {}]

\* A corpus that rotted since its check; one that rotted too, without a backup as yet,
\* last checked by a clock that ran ahead of this one; a sound one, checked today.
\* Corrupt backups and session files left behind come up on the way.
MCLefts == {Left("corrupt", "sound", "fresh"), Left("corrupt", "none", "future"),
            Left("sound", "none", "fresh")}

\* A sound corpus whose last check is due again.
MCSound == {Left("sound", "none", "stale")}
=============================================================================
