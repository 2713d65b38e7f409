--------------------------- MODULE MCLogPipeline ---------------------------
\* Bounded instances of LogPipeline. The counter starts a few values before its
\* end: the calls that a process makes before that change nothing else.
EXTENDS LogPipeline

EffectiveFirst == <<"effective", "console">>
OneSink == <<"effective">>

=============================================================================
