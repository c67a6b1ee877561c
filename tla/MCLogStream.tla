------------------------------ MODULE MCLogStream ------------------------------
EXTENDS LogStream

MCLine ==
  {[severity |-> "kError", caller_type |-> "Server", caller_name |-> "srv-1"],
   [severity |-> "kDebug", caller_type |-> "Cloud", caller_name |-> "cloud-1"]}

=============================================================================
