----------------------- MODULE MCAcceleratedDownload -----------------------
(* AcceleratedDownload on small instances; the .cfg files give the          *)
(* constants.  Workers are not declared symmetric: a liveness property is   *)
(* checked too.                                                             *)
EXTENDS AcceleratedDownload
=============================================================================
