----------------------------- MODULE MCTcpConn -----------------------------
EXTENDS TcpConn, TLC
MCEvents == {<<ListenFd, "listen", 0>>}
            \cup (Conns \X {"read", "write", "second"} \X Names)
Sym == Permutations(Conns) \cup Permutations(Fds)
=============================================================================
