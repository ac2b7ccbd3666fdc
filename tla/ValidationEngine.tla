--------------------------- MODULE ValidationEngine ---------------------------
(***************************************************************************)
(* drill.ValidationEngine: one typed check, run under a context, gives one *)
(* validation status.                                                      *)
(*                                                                         *)
(* What a check meets is a world: the file at its path (a byte stands for  *)
(* a chunk), what digest the expected one is, the HTTP answer, whether the *)
(* restored database is as a PostgreSQL check asks, and looks, the number  *)
(* of times its context is found alive before it is done.                  *)
(***************************************************************************)
EXTENDS Integers

CONSTANT maxFileBytes

ASSUME EngineAssumption == maxFileBytes \in Nat \ {0}

NoFile == -1

FileTypes == {"FILE_EXISTS", "FILE_SIZE", "SHA256"}

PostgresTypes == {"POSTGRES_CONNECTIVITY", "POSTGRES_TABLE_EXISTS", "POSTGRES_ROW_COUNT"}

\* The expected digest is that of the whole file, of its first maxFileBytes
\* bytes, or of something else.
Digests == {"whole", "prefix", "other"}

\* The server answers in the 200s, redirects, answers otherwise, cannot be
\* reached, or is too late for the client's timeout.
Answers == {"healthy", "redirect", "unhealthy", "unreachable", "late"}

FileExists(world) == world.size # NoFile

\* What io.Copy gets through the LimitReader of maxFileBytes+1.
Copied(world) == IF world.size > maxFileBytes THEN maxFileBytes + 1 ELSE world.size

\* Each read looks at the context first, the one that finds the end of the file
\* too; the LimitReader stops by itself.
Reads(world) == IF world.size > maxFileBytes THEN maxFileBytes + 1 ELSE world.size + 1

DigestMatches(world, n) ==
  \/ world.digest = "whole" /\ n = world.size
  \/ world.digest = "prefix" /\ n = maxFileBytes

\* Mutant: the reader is limited to maxFileBytes, and a longer file is cut off.
verifySHA_Truncates(world) ==
  LET n == IF world.size > maxFileBytes THEN maxFileBytes ELSE world.size IN
  IF ~FileExists(world) THEN "error"
  ELSE IF n + 1 >= world.looks THEN "context"
  ELSE IF DigestMatches(world, n) THEN "nil" ELSE "error"

\* Run has looked once before.
verifySHA(world) ==
  IF ~FileExists(world) THEN "error"
  ELSE IF Reads(world) >= world.looks THEN "context"
  ELSE IF Copied(world) <= maxFileBytes /\ DigestMatches(world, Copied(world))
    THEN "nil" ELSE "error"

\* The client's own timeout is a deadline to errors.Is as well.
httpHealth(world) ==
  CASE ~world.authorized -> "error"
    [] world.authorized /\ (world.looks = 1 \/ world.answer = "late") -> "context"
    [] OTHER -> IF world.answer = "healthy" THEN "nil" ELSE "error"

\* The error of the switch: nil, the context's, or another one.  The engine has
\* no PostgreSQL validator: those checks are an error whatever the database is.
CheckError(check, world) ==
  CASE check.type = "FILE_EXISTS" -> IF FileExists(world) THEN "nil" ELSE "error"
    [] check.type = "FILE_SIZE" ->
         IF FileExists(world) /\ world.size >= check.minBytes THEN "nil" ELSE "error"
    [] check.type = "SHA256" -> verifySHA(world)
    [] check.type = "HTTP_HEALTH" -> httpHealth(world)
    [] OTHER -> "error"

Run(check, world) ==
  IF world.looks = 0 THEN "INCONCLUSIVE"
  ELSE CASE CheckError(check, world) = "nil"     -> "PASS"
         [] CheckError(check, world) = "context" -> "INCONCLUSIVE"
         [] OTHER                                -> "FAIL"
=============================================================================
