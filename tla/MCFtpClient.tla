---------------------------- MODULE MCFtpClient ----------------------------
(* FtpClient with short files: nothing, what fits into the buffer, what does *)
(* not and has a NUL in it.                                                  *)
EXTENDS FtpClient

ShortFiles == {<<>>, <<"text">>, <<"null", "text">>}

=============================================================================
