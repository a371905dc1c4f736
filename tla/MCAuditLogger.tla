--------------------------- MODULE MCAuditLogger ---------------------------
EXTENDS AuditLogger
=============================================================================
