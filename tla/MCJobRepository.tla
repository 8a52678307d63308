--------------------------- MODULE MCJobRepository ---------------------------
\* TLC instance of JobRepository: two jobs, two connections (repository.cfg).
EXTENDS JobRepository
=============================================================================
