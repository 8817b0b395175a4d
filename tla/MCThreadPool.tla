---------------------------- MODULE MCThreadPool ----------------------------
\* ThreadPool for TLC: two priorities and two orders, so that tasks of higher,
\* lower and equal rank meet in the queue.
EXTENDS ThreadPool

MCPriority == {0, 2}
MCOrder == {1, 2}
=============================================================================
