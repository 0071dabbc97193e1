---------------------------- MODULE MC_BuildConfig ----------------------------
EXTENDS BuildConfig

\* GCC and Clang on Linux (Clang reports __GNUC__ 4), MSVC, and MinGW GCC.
MCCompilers ==
    {[win |-> FALSE, msvc |-> FALSE, gnuc |-> 9, vispreset |-> TRUE],
     [win |-> FALSE, msvc |-> FALSE, gnuc |-> 4, vispreset |-> TRUE],
     [win |-> TRUE, msvc |-> TRUE, gnuc |-> 0, vispreset |-> FALSE],
     [win |-> TRUE, msvc |-> FALSE, gnuc |-> 10, vispreset |-> TRUE]}
=============================================================================
