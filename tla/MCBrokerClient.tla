--------------------------- MODULE MCBrokerClient ---------------------------
EXTENDS BrokerClient

\* One call: the calls of a command meet only in what the command remembers of
\* brokers and jobs, and in the stop.
CONSTANTS c1
=============================================================================
