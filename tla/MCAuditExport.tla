--------------------------- MODULE MCAuditExport ---------------------------
(* Small instances of AuditExport.                                         *)
EXTENDS AuditExport

MCFileAndHttp == <<"FILE", "HTTP">>
===========================================================================
