---------------------------- MODULE MCEventStream ----------------------------
\* TLC instances of EventStream: event_stream.cfg and found_lost_wakeup.cfg.
EXTENDS EventStream
=============================================================================
