--------------------------- MODULE S3dbRefinement ---------------------------
(***************************************************************************)
(* The manifest, the snapshot it points to and the log on top of it are    *)
(* one versioned database.                                                 *)
(***************************************************************************)
EXTENDS S3db

contents ==
  IF manifest = NoManifest THEN NoManifest ELSE Content(epoch(manifest), manifest.seq)
seq == IF manifest = NoManifest THEN 0 ELSE manifest.seq
schema == IF manifest = NoManifest THEN 0 ELSE manifest.schema

Abstract == INSTANCE VersionedDB WITH asked <- fn, intact <- sound, Nothing <- NoManifest

\* As long as no client replaces the manifest from a connection that lost
\* changesets in a ROLLBACK, every Update takes effect at most once, as a whole,
\* on the contents the commits before it left; migrations and compactions of
\* others, rebases, rollbacks and lost CAS attempts do not show.
ImplementsVersionedDB == Abstract!Spec
=============================================================================
