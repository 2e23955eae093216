----------------------------- MODULE MCTcpStream -----------------------------
EXTENDS TcpStream
=============================================================================
