------------------------------- MODULE MCSwap -------------------------------
EXTENDS SwapProperties

TermsOf(amount, timeout, net) ==
    [amount |-> amount, btc |-> 1, cync |-> timeout, net |-> net]

\* Two amounts under the shortest CYNC timeout that is safe for its BTC timeout,
\* terms a block short of it, and the terms of the command line.
SomeTerms == {TermsOf(1, 7, "regtest"), TermsOf(2, 7, "regtest"),
              TermsOf(1, 6, "regtest"), TermsOf(1, 7, "unknown")}
=============================================================================
