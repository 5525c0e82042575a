---------------------------- MODULE MCFtpClient ----------------------------
(* Small instances of the FTP client for TLC. *)
EXTENDS FtpClientSafety

AllCalls == Simple \cup Composite
=============================================================================
