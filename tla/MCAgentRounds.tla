---- MODULE MCAgentRounds ----
\* Instance for TLC: one route and one range of source.
EXTENDS AgentRounds, TLC
====
