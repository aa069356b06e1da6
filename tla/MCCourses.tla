------------------------------- MODULE MCCourses -------------------------------
EXTENDS Courses, TLC

CourseSymmetry == UNION {Permutations(S) : S \in {Courses, Tees, Holes, Removals, Requests}}
================================================================================
