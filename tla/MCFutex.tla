------------------------------ MODULE MCFutex ------------------------------
EXTENDS Futex

MCTimeouts == {-1, 0, 1}

=============================================================================
