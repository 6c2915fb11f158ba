---------------------------- MODULE MCFtpClient ----------------------------
(***************************************************************************)
(* The constants of FtpClient are plain values, which the .cfg files give; *)
(* what the user may type is named here.                                   *)
(***************************************************************************)
EXTENDS FtpClient

Everything == AllVerbs

\* Four commands deep: a list is a retr without a path, help and an unknown
\* command ask nothing.
FewVerbs == AllVerbs \ {"list", "help", "bad"}
============================================================================
