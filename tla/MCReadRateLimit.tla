-------------------------- MODULE MCReadRateLimit ---------------------------
(***************************************************************************)
(* A small instance of the Postgres rate limiter for TLC.                  *)
(***************************************************************************)
EXTENDS PostgresReadRateLimit

\* Roles that share a bucket bring limits of their own.
RoleLimits == <<2, 2, 1>>

\* Processes and buckets are alike: the first request picks its own, and the
\* third comes to the same process, the second to that one or to another.
First == CHOOSE route \in Processes \X Buckets : TRUE
FirstAndThirdMeet == << {First}, Processes \X Buckets, {First[1]} \X Buckets >>
=============================================================================
